---- MODULE Spec2Model ----
\* A model of ai-bench: the BenchmarkRunner scheduler (persistence module),
\* the write-ahead result store (saveRunResult) and the progress aggregator
\* (useBenchmarkStore), as they are wired together by index.tsx.
EXTENDS Integers, Sequences, FiniteSets, TLC

\* ---------------------------------------------------------------- bounds
MaxItems == 2
MaxParallel == 2
MaxRuns == 2
MaxClock == 1
MaxFaults == 1
MaxTokens == 1
MaxQueue == 2
MaxTime == 3
MaxCombines == 2
MaxForeign == 1
MaxMatrixItems == 8
MaxMatrixRuns == 2
MaxOverlapItems == 4

\* ------------------------------------------------------- program constants
MaxFilenameLen == 100

\* this.timeoutSeconds * 1000, in clock ticks
TimeoutMs == 2

\* ------------------------------------------------------------ small helpers
Min(a, b) == IF a < b THEN a ELSE b

Range(s) == {s[k] : k \in DOMAIN s}

\* JavaScript numbers: the integers, and NaN, written as a value no count or
\* duration takes.  JSON has null, written likewise.
NaN == -1
JsonNull == -2
Undefined == -3

\* a + b of JavaScript
Plus(a, b) == IF a = NaN \/ b = NaN THEN NaN ELSE a + b

\* JSON.stringify(result, null, 2): a number that is not finite is written as
\* null; everything else of a RunResult is written as it is.
JsonNumber(n) == IF n = NaN THEN JsonNull ELSE n

JSONStringify(result) ==
    [result EXCEPT
        !.runIndex = JsonNumber(result.runIndex),
        !.durationMs = JsonNumber(result.durationMs),
        !.tokenUsage = [k \in DOMAIN result.tokenUsage |->
                           JsonNumber(result.tokenUsage[k])]]

\* s.reduce((sum, x) => sum + x, 0)
RECURSIVE SeqSum(_)
SeqSum(s) == IF s = <<>> THEN 0 ELSE Plus(SeqSum(SubSeq(s, 1, Len(s) - 1)), s[Len(s)])

\* ------------------------------------------------------------ file names
\* Strings are sequences of one-character strings.

\* The characters kept by /[^a-zA-Z0-9-_]/ among those the model uses.
SafeChars == {"a", "b", "c", "r", "u", "n", "T", "Z", "0", "1", "2", "3", "4",
              "5", "6", "7", "8", "9", "-", "_"}

\* .replace(/[^a-zA-Z0-9-_]/g, "-")
ReplaceUnsafe(str) ==
    [k \in 1..Len(str) |-> IF str[k] \in SafeChars THEN str[k] ELSE "-"]

\* .replace(/-+/g, "-")
RECURSIVE CollapseDashes(_)
CollapseDashes(str) ==
    IF Len(str) <= 1 THEN str
    ELSE IF str[1] = "-" /\ str[2] = "-" THEN CollapseDashes(Tail(str))
    ELSE <<str[1]>> \o CollapseDashes(Tail(str))

sanitizeForFilename(str) ==
    LET collapsed == CollapseDashes(ReplaceUnsafe(str))
    IN  SubSeq(collapsed, 1, Min(MaxFilenameLen, Len(collapsed)))

Digit(n) == <<"0", "1", "2", "3", "4", "5", "6", "7", "8", "9">>[n + 1]

\* new Date().toISOString() at clock value t: "T0:<t>.0Z" (fixed width, as the
\* ISO format is).
toISOString(t) == <<"T", "0", ":", Digit(t), ".", "0", "Z">>

\* result.timestamp.replace(/[:.]/g, "-")
TimestampForFilename(iso) ==
    [k \in 1..Len(iso) |-> IF iso[k] \in {":", "."} THEN "-" ELSE iso[k]]

\* join(runDir, sanitize(modelName), `${timestamp}-${testName}-run${runIndex}.json`)
FinalPath(result) ==
    [dir  |-> sanitizeForFilename(result.modelName),
     file |-> TimestampForFilename(result.timestamp) \o <<"-">>
              \o sanitizeForFilename(result.testName)
              \o <<"-", "r", "u", "n", Digit(result.runIndex), ".json">>,
     tmp  |-> FALSE]

\* Date.parse of a timestamp produced by toISOString
FromISOString(iso) == CHOOSE t \in 0..9 : toISOString(t) = iso

\* `${filepath}.tmp`
TempPath(result) == [FinalPath(result) EXCEPT !.tmp = TRUE]

\* ------------------------------------------------------------ configuration
ModelA == <<"a", "/">>
ModelB == <<"a", ":", ":">>
ModelC == <<"b">>
TestX  == <<"c">>
TestY  == <<"c", " ">>

ModelLists == {<<ModelA>>, <<ModelA, ModelB>>, <<ModelC, ModelA>>}
TestLists  == {<<TestX>>, <<TestX, TestY>>}

\* test.type
TestType(test) == IF test = TestX THEN "text" ELSE "structured-output"

\* The triple loop of run(): model-major, then test, then runIndex.
RECURSIVE RunsOf(_, _, _, _)
RunsOf(model, test, runIndex, runsPerTest) ==
    IF runIndex >= runsPerTest THEN <<>>
    ELSE <<[model |-> model, test |-> test, runIndex |-> runIndex]>>
         \o RunsOf(model, test, runIndex + 1, runsPerTest)

RECURSIVE TestsOf(_, _, _)
TestsOf(model, tests, runsPerTest) ==
    IF tests = <<>> THEN <<>>
    ELSE RunsOf(model, Head(tests), 0, runsPerTest)
         \o TestsOf(model, Tail(tests), runsPerTest)

\* the loops of run() with the test loop outside the model loop
RECURSIVE WorkItemsTestMajor(_, _, _)
WorkItemsTestMajor(models, tests, runsPerTest) ==
    IF tests = <<>> THEN <<>>
    ELSE LET RECURSIVE ModelsOf(_)
             ModelsOf(ms) ==
                 IF ms = <<>> THEN <<>>
                 ELSE RunsOf(Head(ms), Head(tests), 0, runsPerTest) \o ModelsOf(Tail(ms))
         IN  ModelsOf(models) \o WorkItemsTestMajor(models, Tail(tests), runsPerTest)

RECURSIVE WorkItems(_, _, _)
WorkItems(models, tests, runsPerTest) ==
    IF models = <<>> THEN <<>>
    ELSE TestsOf(Head(models), tests, runsPerTest)
         \o WorkItems(Tail(models), tests, runsPerTest)

Configs ==
    {c \in [models : ModelLists, tests : TestLists,
            runsPerTest : 1..MaxRuns, parallelLimit : 1..MaxParallel] :
        Len(c.models) * Len(c.tests) * c.runsPerTest <= MaxItems}

\* ------------------------------------------------------------------ state
VARIABLES
    config,       \* constructor arguments of BenchmarkRunner
    runPc,        \* main(): "main" .. "verifyJudge", "exit:..."; run(): "init", "awaiting", "returned", "rejected"
    judgeCapability, \* how the probe of verifyJudgeModelCapability ended, or "unchecked"
    tasks,        \* the work items pushed by run(), in order
    pc,           \* per task: position inside limit(...) / executeRun / saveRunResult
    attempt,      \* per task: 1 in the try block, 2 in the catch block
    threw,        \* per task: <<err.message>> once the execution of the item threw
    started,      \* per task: Date.now() at executeRun entry
    cur,          \* per task: <<result>> being saved, or <<>>
    buf,          \* per task: what Bun.file(tempPath).text() returned
    results,      \* this.results
    events,       \* every event emitted so far, in order
    disk,         \* set of files [path, content]; content <<r>> complete, <<>> partial
    writers,      \* <<final path, task>> for every Bun.write that began
    saveFailed,   \* tasks one of whose saveRunResult calls threw
    faults,       \* injected file system faults so far
    faultBudget,  \* how many file system faults this run may suffer
    reactRoot,    \* "legacy": setState flushes synchronously; "concurrent": batched
    horizon,      \* the last clock value the run is observed at
    response,     \* per task: <<locals of executeTextTest>> while the judge is called
    clock,        \* Date.now()
    activeRunsRef,        \* useBenchmarkStore refs
    completedResultsRef,
    errorsRef,
    pendingUpdates,
    updateScheduled,
    timers,       \* setTimeout(forceUpdate, 50) callbacks not yet fired
    state,        \* the snapshot useBenchmarkStore returns (committed React state)
    queue,        \* setState updater functions React has not run yet
    siblings,     \* the other run directories of outputDir
    resultsDir,   \* the summary files of the results directory
    combines      \* the invocations of the combiner so far

runnerVars == <<config, runPc, judgeCapability, tasks, pc, attempt, threw, started, cur, buf,
                results, events, disk, writers, saveFailed, faults, faultBudget,
                reactRoot, horizon, response>>
storeVars == <<activeRunsRef, completedResultsRef, errorsRef, pendingUpdates,
               updateScheduled, timers, state, queue>>
combinerVars == <<siblings, resultsDir, combines>>
vars == <<runnerVars, clock, storeVars, combinerVars>>

N == Len(tasks)

ActiveTasks == {i \in 1..N : pc[i] \notin {"queued", "done", "rejected"}}

Emit(type, i) == Append(events, [type |-> type, task |-> i])

\* Time advances while a remote call or a file operation is in flight: the
\* actions that end one let the clock advance first and read clock'.  The
\* other actions read the clock as it stands.
TimePasses == clock' \in clock..horizon
NoTimePasses == clock' = clock

\* ------------------------------------------------------------------- disk
Exists(d, path) == \E f \in d : f.path = path
ContentOf(d, path) == (CHOOSE f \in d : f.path = path).content
Unlink(d, path) == {f \in d : f.path # path}
WriteFile(d, path, content) ==
    Unlink(d, path) \cup {[path |-> path, content |-> content]}

\* -------------------------------------------------- useBenchmarkStore state
NoUpdates ==
    [totalTests |-> <<>>, runsPerTest |-> <<>>, totalRuns |-> <<>>,
     startTime |-> <<>>, completedRuns |-> <<>>, successfulRuns |-> <<>>,
     failedRuns |-> <<>>, totalTokens |-> <<>>, isComplete |-> <<>>]

\* { ...prev, ...updates }
Spread(prev, updates) ==
    [k \in DOMAIN prev |->
        IF k \in DOMAIN updates /\ Len(updates[k]) > 0 THEN updates[k][1]
        ELSE prev[k]]

\* useState initial value (use-benchmark-store.ts:59-76); config.totalTests is
\* tests * models (index.tsx:304).
InitialState(c) ==
    [totalTests       |-> Len(c.tests) * Len(c.models),
     runsPerTest      |-> c.runsPerTest,
     totalRuns        |-> Len(c.tests) * Len(c.models) * c.runsPerTest,
     completedRuns    |-> 0,
     successfulRuns   |-> 0,
     failedRuns       |-> 0,
     startTime        |-> 0,
     elapsedMs        |-> 0,
     totalTokens      |-> 0,
     activeRuns       |-> <<>>,
     completedResults |-> <<>>,
     errors           |-> <<>>,
     isComplete       |-> FALSE,
     shared           |-> {}]

\* The updater functions handed to setState. Each reads the refs and the
\* clock when React runs it, which may be later than the setState call.
\* `shared` names the list fields of a snapshot that are the very array a ref
\* holds; [...ref.current] makes an array of the snapshot's own.
ForceUpdaterNoCopy(prev, pending, active, completed, errs) ==
    [Spread(prev, pending) EXCEPT
        !.activeRuns = active, !.completedResults = completed, !.errors = errs,
        !.shared = {"activeRuns", "completedResults", "errors"}]
ForceUpdater(prev, pending, active, completed, errs) ==
    [Spread(prev, pending) EXCEPT
        !.activeRuns = active, !.completedResults = completed, !.errors = errs,
        !.shared = {}]

CompleteUpdater(prev, pending, active, completed, errs, now) ==
    [Spread(prev, pending) EXCEPT
        !.activeRuns = active, !.completedResults = completed, !.errors = errs,
        !.shared = {},
        !.elapsedMs = now - Spread(prev, pending).startTime]

TickUpdater(prev, now) == [prev EXCEPT !.elapsedMs = now - prev.startTime]

RunUpdater(kind, prev, pending, active, completed, errs, now) ==
    CASE kind = "force"    -> ForceUpdater(prev, pending, active, completed, errs)
      [] kind = "complete" -> CompleteUpdater(prev, pending, active, completed, errs, now)
      [] kind = "tick"     -> TickUpdater(prev, now)

\* setState(updater): React either runs the updater during the call (no update
\* is waiting: synchronous flush or eager computation) or queues it for the
\* next render.  pending/active/completed/errs are the refs as they are at the
\* moment of the call.
SetState(kind, pending, active, completed, errs) ==
    \/ /\ queue = <<>>
       /\ state' = RunUpdater(kind, state, pending, active, completed, errs, clock')
       /\ queue' = queue
    \/ /\ reactRoot = "concurrent"
       /\ Len(queue) < MaxQueue
       /\ queue' = Append(queue, kind)
       /\ state' = state

RECURSIVE ApplyQueue(_, _, _, _, _, _, _)
ApplyQueue(q, prev, pending, active, completed, errs, now) ==
    IF q = <<>> THEN prev
    ELSE ApplyQueue(Tail(q),
                    RunUpdater(Head(q), prev, pending, active, completed, errs, now),
                    pending, active, completed, errs, now)

\* React renders: the queued updaters run in order, against the refs as they
\* are now, and the result is committed.
Render ==
    /\ runPc # "rejected"
    /\ queue # <<>>
    /\ NoTimePasses
    /\ state' = ApplyQueue(queue, state, pendingUpdates, activeRunsRef,
                           completedResultsRef, errorsRef, clock')
    /\ queue' = <<>>
    /\ UNCHANGED <<runnerVars, combinerVars, activeRunsRef, completedResultsRef,
                   errorsRef, pendingUpdates, updateScheduled, timers>>

\* forceUpdate(): setState, then the pending buffer and the flag are reset.
ForceUpdate(pending, active, completed, errs) ==
    /\ SetState("force", pending, active, completed, errs)
    /\ pendingUpdates' = NoUpdates
    /\ updateScheduled' = FALSE

\* scheduleUpdate(): one timer unless the flag is already set.
ScheduleUpdate ==
    /\ updateScheduled' = TRUE
    /\ timers' = IF updateScheduled THEN timers ELSE timers + 1

\* the setTimeout callback of scheduleUpdate
TimerFires ==
    /\ runPc # "rejected"
    /\ timers > 0
    /\ NoTimePasses
    /\ timers' = timers - 1
    /\ ForceUpdate(pendingUpdates, activeRunsRef, completedResultsRef, errorsRef)
    /\ UNCHANGED <<runnerVars, combinerVars, activeRunsRef, completedResultsRef, errorsRef>>

\* the setInterval callback of the elapsed-time effect; the effect is torn
\* down once a snapshot with isComplete is committed.
ElapsedTick ==
    /\ runPc # "rejected"
    /\ ~state.isComplete
    /\ "tick" \notin Range(queue)
    /\ NoTimePasses
    /\ SetState("tick", pendingUpdates, activeRunsRef, completedResultsRef, errorsRef)
    /\ UNCHANGED <<runnerVars, combinerVars, activeRunsRef, completedResultsRef,
                   errorsRef, pendingUpdates, updateScheduled, timers>>

SameRunPartialKey(run, testName, modelName, runIndex) ==
    /\ run.testName = testName
    /\ run.modelName = modelName
SameRun(run, testName, modelName, runIndex) ==
    /\ run.testName = testName
    /\ run.modelName = modelName
    /\ run.runIndex = runIndex

handleBenchmarkStart(totalTests, runsPerTest) ==
    /\ pendingUpdates' = [pendingUpdates EXCEPT
            !.totalTests = <<totalTests>>, !.runsPerTest = <<runsPerTest>>,
            !.totalRuns = <<totalTests * runsPerTest>>, !.startTime = <<clock'>>]
    /\ ScheduleUpdate
    /\ UNCHANGED <<activeRunsRef, completedResultsRef, errorsRef, state, queue>>

handleRunStart(testName, modelName, runIndex) ==
    LET active == Append(activeRunsRef,
                         [testName |-> testName, modelName |-> modelName,
                          runIndex |-> runIndex, startTime |-> clock'])
    IN  /\ activeRunsRef' = active
        /\ ForceUpdate(pendingUpdates, active, completedResultsRef, errorsRef)
        /\ UNCHANGED <<completedResultsRef, errorsRef, timers>>

\* a handler of run:complete that puts the result in front of the list
handleRunCompleteUnshift(result) ==
    LET active == SelectSeq(activeRunsRef,
                     LAMBDA run : ~SameRun(run, result.testName,
                                           result.modelName, result.runIndex))
        completed == <<result>> \o completedResultsRef
        completedRuns == Len(completed)
        successfulRuns == Len(SelectSeq(completed, LAMBDA r : r.success))
        totalTokens == SeqSum([k \in 1..Len(completed) |-> completed[k].tokenUsage.total])
        pending == [pendingUpdates EXCEPT
                       !.completedRuns = <<completedRuns>>,
                       !.successfulRuns = <<successfulRuns>>,
                       !.failedRuns = <<completedRuns - successfulRuns>>,
                       !.totalTokens = <<totalTokens>>]
    IN  /\ activeRunsRef' = active
        /\ completedResultsRef' = completed
        /\ ForceUpdate(pending, active, completed, errorsRef)
        /\ UNCHANGED <<errorsRef, timers>>

handleRunComplete(result) ==
    LET active == SelectSeq(activeRunsRef,
                     LAMBDA run : ~SameRun(run, result.testName,
                                           result.modelName, result.runIndex))
        completed == Append(completedResultsRef, result)
        completedRuns == Len(completed)
        successfulRuns == Len(SelectSeq(completed, LAMBDA r : r.success))
        totalTokens == SeqSum([k \in 1..Len(completed) |-> completed[k].tokenUsage.total])
        pending == [pendingUpdates EXCEPT
                       !.completedRuns = <<completedRuns>>,
                       !.successfulRuns = <<successfulRuns>>,
                       !.failedRuns = <<completedRuns - successfulRuns>>,
                       !.totalTokens = <<totalTokens>>]
    IN  /\ activeRunsRef' = active
        /\ completedResultsRef' = completed
        /\ ForceUpdate(pending, active, completed, errorsRef)
        /\ UNCHANGED <<errorsRef, timers>>

\* a handler of run:error that records the error and leaves the active runs
handleRunErrorKeepsActive(testName, modelName, runIndex, message) ==
    /\ errorsRef' = Append(errorsRef, [testName |-> testName,
                                       modelName |-> modelName, message |-> message])
    /\ ScheduleUpdate
    /\ UNCHANGED <<activeRunsRef, completedResultsRef, pendingUpdates, state, queue>>

handleRunError(testName, modelName, runIndex, message) ==
    /\ activeRunsRef' = SelectSeq(activeRunsRef,
                            LAMBDA run : ~SameRun(run, testName, modelName, runIndex))
    /\ errorsRef' = Append(errorsRef, [testName |-> testName,
                                       modelName |-> modelName, message |-> message])
    /\ ScheduleUpdate
    /\ UNCHANGED <<completedResultsRef, pendingUpdates, state, queue>>

handleBenchmarkComplete ==
    LET pending == [pendingUpdates EXCEPT !.isComplete = <<TRUE>>]
    IN  /\ pendingUpdates' = pending
        /\ SetState("complete", pending, activeRunsRef, completedResultsRef, errorsRef)
        /\ UNCHANGED <<activeRunsRef, completedResultsRef, errorsRef,
                       updateScheduled, timers>>

InitProcessOf(configs) ==
    /\ config \in configs
    /\ judgeCapability = "unchecked"
    /\ tasks = <<>>
    /\ pc = <<>>
    /\ attempt = <<>>
    /\ threw = <<>>
    /\ started = <<>>
    /\ cur = <<>>
    /\ buf = <<>>
    /\ response = <<>>
    /\ results = <<>>
    /\ events = <<>>
    /\ disk = {}
    /\ writers = {}
    /\ saveFailed = {}
    /\ faults = 0
    /\ clock = 0
    /\ activeRunsRef = <<>>
    /\ completedResultsRef = <<>>
    /\ errorsRef = <<>>
    /\ pendingUpdates = NoUpdates
    /\ updateScheduled = FALSE
    /\ timers = 0
    /\ state = InitialState(config)
    /\ queue = <<>>
    /\ siblings = {}
    /\ resultsDir = {}
    /\ combines = <<>>

InitProcess == InitProcessOf(Configs)

\* A BenchmarkRunner that has been constructed and whose run() has not been
\* called.
InitRunner ==
    /\ runPc = "init"
    /\ InitProcess

\* The runner with a failing disk, observed through a synchronously flushing
\* store (the store never acts back on the runner).
Init ==
    /\ InitRunner
    /\ faultBudget = MaxFaults
    /\ reactRoot = "legacy"
    /\ horizon = MaxClock

\* The runner on a working disk, the store under a batching React root (which
\* may also run every updater at once, as a legacy root does).
InitStore ==
    /\ InitRunner
    /\ faultBudget = 0
    /\ reactRoot = "concurrent"
    /\ horizon = MaxClock

\* ------------------------------------------------------------ BenchmarkRunner
\* response.usage of a model call: promptTokens and completionTokens.
Usages == {<<p, p>> : p \in 0..MaxTokens}

\* response.usage of a provider that does not report token counts: the ai
\* package then gives NaN, which `?? 0` lets through.
UsagesOrNaN == {<<MaxTokens, MaxTokens>>, <<NaN, NaN>>}

\* the RunResult returned by executeTextTest / executeStructuredTest
SuccessResult(i, success, usage) ==
    [testName   |-> tasks[i].test,
     modelName  |-> tasks[i].model,
     runIndex   |-> tasks[i].runIndex,
     timestamp  |-> toISOString(clock'),
     success    |-> success,
     reason     |-> IF success THEN <<"ok">> ELSE <<"wrong answer">>,
     durationMs |-> clock' - started[i],
     tokenUsage |-> [input |-> usage[1], output |-> usage[2],
                     total |-> Plus(usage[1], usage[2])]]

\* failedResult of the catch block; message is err.message
FailedResultNoMessage(i, message) ==
    [testName   |-> tasks[i].test,
     modelName  |-> tasks[i].model,
     runIndex   |-> tasks[i].runIndex,
     timestamp  |-> toISOString(clock'),
     success    |-> FALSE,
     reason     |-> <<"Error: ", "unknown">>,
     durationMs |-> clock' - started[i],
     tokenUsage |-> [input |-> 0, output |-> 0, total |-> 0]]
FailedResult(i, message) ==
    [testName   |-> tasks[i].test,
     modelName  |-> tasks[i].model,
     runIndex   |-> tasks[i].runIndex,
     timestamp  |-> toISOString(clock'),
     success    |-> FALSE,
     reason     |-> <<"Error: ", message>>,
     durationMs |-> clock' - started[i],
     tokenUsage |-> [input |-> 0, output |-> 0, total |-> 0]]

\* pLimit(this.parallelLimit): a task may start while fewer are running.
SlotFreeOffByOne == Cardinality(ActiveTasks) <= config.parallelLimit
SlotFreeSerial == ActiveTasks = {}
SlotFree == Cardinality(ActiveTasks) < config.parallelLimit

\* await Promise.all(tasks): every task has fulfilled.
AnySettled == \E i \in 1..N : pc[i] = "done"
AllSettled == \A i \in 1..N : pc[i] = "done"

\* this.results.push(result)
PushResultIfSuccess(result) == IF result.success THEN Append(results, result) ELSE results
PushResult(result) == Append(results, result)

\* run(): benchmark:start, then one limit(...) task per work item.
RunBegin ==
    /\ runPc = "init"
    /\ NoTimePasses
    /\ runPc' = "awaiting"
    /\ tasks' = WorkItems(config.models, config.tests, config.runsPerTest)
    /\ pc' = [i \in 1..Len(tasks') |-> "queued"]
    /\ attempt' = [i \in 1..Len(tasks') |-> 1]
    /\ threw' = [i \in 1..Len(tasks') |-> <<>>]
    /\ started' = [i \in 1..Len(tasks') |-> 0]
    /\ cur' = [i \in 1..Len(tasks') |-> <<>>]
    /\ buf' = [i \in 1..Len(tasks') |-> <<>>]
    /\ response' = [i \in 1..Len(tasks') |-> <<>>]
    /\ events' = Emit("benchmark:start", 0)
    /\ handleBenchmarkStart(Len(config.tests) * Len(config.models), config.runsPerTest)
    /\ UNCHANGED <<combinerVars, config, judgeCapability, faultBudget, reactRoot, horizon, results, disk,
                   writers, saveFailed, faults>>

\* a limiter that lets any queued task in when a slot is free
StartRunAnyQueued(i) ==
    /\ runPc = "awaiting"
    /\ pc[i] = "queued"
    /\ SlotFree
    /\ NoTimePasses
    /\ pc' = [pc EXCEPT ![i] = "exec"]
    /\ started' = [started EXCEPT ![i] = clock']
    /\ events' = Emit("run:start", i)
    /\ handleRunStart(tasks[i].test, tasks[i].model, tasks[i].runIndex)
    /\ UNCHANGED <<combinerVars, config, judgeCapability, faultBudget, reactRoot, horizon, response, runPc, tasks, attempt, threw,
                   cur, buf, results, disk, writers, saveFailed, faults>>

\* pLimit lets the oldest queued task in while fewer than parallelLimit are
\* running; the task enters executeRun and emits run:start.
StartRun(i) ==
    /\ runPc = "awaiting"
    /\ pc[i] = "queued"
    /\ \A j \in 1..(i - 1) : pc[j] # "queued"
    /\ SlotFree
    /\ NoTimePasses
    /\ pc' = [pc EXCEPT ![i] = "exec"]
    /\ started' = [started EXCEPT ![i] = clock']
    /\ events' = Emit("run:start", i)
    /\ handleRunStart(tasks[i].test, tasks[i].model, tasks[i].runIndex)
    /\ UNCHANGED <<combinerVars, config, judgeCapability, faultBudget, reactRoot, horizon, response, runPc, tasks, attempt, threw,
                   cur, buf, results, disk, writers, saveFailed, faults>>

\* executeTextTest / executeStructuredTest returns a RunResult; executeRun
\* goes on to saveRunResult(this.runDir, result).
ExecReturn(i, success, usage) ==
    /\ runPc = "awaiting"
    /\ pc[i] = "exec"
    /\ TimePasses
    /\ cur' = [cur EXCEPT ![i] = <<SuccessResult(i, success, usage)>>]
    /\ pc' = [pc EXCEPT ![i] = "save_temp"]
    /\ UNCHANGED <<combinerVars, config, judgeCapability, faultBudget, reactRoot, horizon, response, runPc, tasks, attempt, threw,
                   started, buf, results, events, disk, writers, saveFailed,
                   faults, storeVars>>

\* A catch block that reports the error and calls the model again.
CatchAndRetry(i, message) ==
    /\ TimePasses
    /\ attempt' = [attempt EXCEPT ![i] = 2]
    /\ events' = Emit("run:error", i)
    /\ handleRunError(tasks[i].test, tasks[i].model, tasks[i].runIndex, message)
    /\ cur' = [cur EXCEPT ![i] = <<>>]
    /\ pc' = [pc EXCEPT ![i] = "exec"]

\* The catch block of executeRun up to its saveRunResult call: run:error is
\* emitted and the failed result is built.
Catch(i, message) ==
    /\ TimePasses
    /\ attempt' = [attempt EXCEPT ![i] = 2]
    /\ events' = Emit("run:error", i)
    /\ handleRunError(tasks[i].test, tasks[i].model, tasks[i].runIndex, message)
    /\ cur' = [cur EXCEPT ![i] = <<FailedResult(i, message)>>]
    /\ pc' = [pc EXCEPT ![i] = "save_temp"]

\* The model call throws (remote failure) or its abort signal fires (timeout).
ExecThrowUncaught(i, message) ==
    /\ runPc = "awaiting"
    /\ pc[i] = "exec"
    /\ threw' = [threw EXCEPT ![i] = <<message>>]
    /\ pc' = [pc EXCEPT ![i] = "rejected"]
    /\ runPc' = "rejected"
    /\ UNCHANGED <<combinerVars, config, judgeCapability, faultBudget, reactRoot, horizon, response, tasks, attempt, started, cur,
                   buf, results, events, disk, writers, saveFailed, faults,
                   clock, storeVars>>
ExecThrow(i, message) ==
    /\ runPc = "awaiting"
    /\ pc[i] = "exec"
    /\ threw' = [threw EXCEPT ![i] = <<message>>]
    /\ Catch(i, message)
    /\ UNCHANGED <<combinerVars, config, judgeCapability, faultBudget, reactRoot, horizon, response, runPc, tasks, started, buf,
                   results, disk, writers, saveFailed, faults>>

\* saveRunResult throws.  In the try block the catch block takes over; in the
\* catch block executeRun rejects, so does the limit(...) promise, Promise.all
\* and run(), and the caller (index.tsx:345-351) exits the process.
SaveThrows(i, message) ==
    /\ saveFailed' = saveFailed \cup {i}
    /\ IF attempt[i] = 1
       THEN /\ Catch(i, message)
            /\ UNCHANGED runPc
       ELSE /\ pc' = [pc EXCEPT ![i] = "rejected"]
            /\ runPc' = "rejected"
            /\ UNCHANGED <<attempt, events, cur, clock, storeVars>>

\* saveRunResult: mkdir(modelDir) and writeFile(tempPath, JSON) succeed.
SaveWriteTemp(i) ==
    /\ runPc = "awaiting"
    /\ pc[i] = "save_temp"
    /\ disk' = WriteFile(disk, TempPath(cur[i][1]), <<JSONStringify(cur[i][1])>>)
    /\ pc' = [pc EXCEPT ![i] = "save_copy"]
    /\ UNCHANGED <<combinerVars, config, judgeCapability, faultBudget, reactRoot, horizon, response, runPc, tasks, attempt, threw, started, cur, buf,
                   results, events, writers, saveFailed, faults, clock, storeVars>>

\* mkdir fails, or writeFile fails and leaves a partial temporary file.
SaveWriteTempFails(i, partial) ==
    /\ runPc = "awaiting"
    /\ pc[i] = "save_temp"
    /\ faults < faultBudget
    /\ faults' = faults + 1
    /\ disk' = IF partial THEN WriteFile(disk, TempPath(cur[i][1]), <<>>) ELSE disk
    /\ SaveThrows(i, "write")
    /\ UNCHANGED <<combinerVars, config, judgeCapability, faultBudget, reactRoot, horizon, response, tasks, threw, started, buf,
                   results, writers>>

\* Bun.file(tempPath).text() is read and Bun.write(filepath, ...) opens the
\* final path, truncating it; the content is not there yet.
SaveOpenFinal(i) ==
    /\ runPc = "awaiting"
    /\ pc[i] = "save_copy"
    /\ Exists(disk, TempPath(cur[i][1]))
    /\ buf' = [buf EXCEPT ![i] = ContentOf(disk, TempPath(cur[i][1]))]
    /\ disk' = WriteFile(disk, FinalPath(cur[i][1]), <<>>)
    /\ writers' = writers \cup {<<FinalPath(cur[i][1]), i>>}
    /\ pc' = [pc EXCEPT ![i] = "save_fill"]
    /\ UNCHANGED <<combinerVars, config, judgeCapability, faultBudget, reactRoot, horizon, response, runPc, tasks, attempt, threw, started, cur, results,
                   events, saveFailed, faults, clock, storeVars>>

\* Bun.file(tempPath).text() finds no temporary file (another saveRunResult
\* with the same tempPath has unlinked it) and throws.
SaveReadTempFails(i) ==
    /\ runPc = "awaiting"
    /\ pc[i] = "save_copy"
    /\ ~Exists(disk, TempPath(cur[i][1]))
    /\ SaveThrows(i, "read")
    /\ UNCHANGED <<combinerVars, config, judgeCapability, faultBudget, reactRoot, horizon, response, tasks, threw, started, buf,
                   results, disk, writers, faults>>

\* Bun.write finishes: the final path holds what was read from the temp file.
SaveFillFinal(i) ==
    /\ runPc = "awaiting"
    /\ pc[i] = "save_fill"
    /\ disk' = WriteFile(disk, FinalPath(cur[i][1]), buf[i])
    /\ pc' = [pc EXCEPT ![i] = "save_unlink"]
    /\ UNCHANGED <<combinerVars, config, judgeCapability, faultBudget, reactRoot, horizon, response, runPc, tasks, attempt, threw, started, cur, buf,
                   results, events, writers, saveFailed, faults, clock, storeVars>>

\* Bun.write fails half way: the final path is left partially written.
SaveFillFinalFails(i) ==
    /\ runPc = "awaiting"
    /\ pc[i] = "save_fill"
    /\ faults < faultBudget
    /\ faults' = faults + 1
    /\ SaveThrows(i, "write")
    /\ UNCHANGED <<combinerVars, config, judgeCapability, faultBudget, reactRoot, horizon, response, tasks, threw, started, buf,
                   results, disk, writers>>

\* exists(tempPath) && unlink(tempPath).catch(() => {}); saveRunResult returns;
\* this.results.push(result); this.emit("run:complete", result); executeRun
\* returns and pLimit frees the slot.
Complete(i) ==
    /\ runPc = "awaiting"
    /\ pc[i] = "save_unlink"
    /\ NoTimePasses
    /\ disk' = Unlink(disk, TempPath(cur[i][1]))
    /\ results' = PushResult(cur[i][1])
    /\ events' = Emit("run:complete", i)
    /\ handleRunComplete(cur[i][1])
    /\ pc' = [pc EXCEPT ![i] = "done"]
    /\ UNCHANGED <<combinerVars, config, judgeCapability, faultBudget, reactRoot, horizon, response, runPc, tasks, attempt, threw,
                   started, cur, buf, writers, saveFailed, faults>>

\* saveRunResult from its call to the end of Bun.write, when nothing fails and
\* no other task touches the same paths: the three steps above in one.
SaveRunResult(i) ==
    /\ runPc = "awaiting"
    /\ pc[i] = "save_temp"
    /\ buf' = [buf EXCEPT ![i] = <<JSONStringify(cur[i][1])>>]
    /\ disk' = WriteFile(WriteFile(disk, TempPath(cur[i][1]), buf'[i]),
                         FinalPath(cur[i][1]), buf'[i])
    /\ writers' = writers \cup {<<FinalPath(cur[i][1]), i>>}
    /\ pc' = [pc EXCEPT ![i] = "save_unlink"]
    /\ UNCHANGED <<combinerVars, config, judgeCapability, faultBudget, reactRoot, horizon, response, runPc, tasks, attempt, threw,
                   started, cur, results, events, saveFailed, faults, clock,
                   storeVars>>

\* await Promise.all(tasks) resolves: benchmark:complete, run() returns.
RunFinish ==
    /\ runPc = "awaiting"
    /\ AllSettled
    /\ NoTimePasses
    /\ runPc' = "returned"
    /\ events' = Emit("benchmark:complete", 0)
    /\ handleBenchmarkComplete
    /\ UNCHANGED <<combinerVars, config, judgeCapability, faultBudget, reactRoot, horizon, response, tasks, pc, attempt, threw,
                   started, cur, buf, results, disk, writers, saveFailed, faults>>

Next ==
    \/ RunBegin
    \/ \E i \in 1..N : StartRun(i)
    \/ \E i \in 1..N, success \in BOOLEAN, usage \in Usages : ExecReturn(i, success, usage)
    \/ \E i \in 1..N, message \in {"failed", "timeout"} : ExecThrow(i, message)
    \/ \E i \in 1..N : SaveWriteTemp(i)
    \/ \E i \in 1..N, partial \in BOOLEAN : SaveWriteTempFails(i, partial)
    \/ \E i \in 1..N : SaveOpenFinal(i)
    \/ \E i \in 1..N : SaveReadTempFails(i)
    \/ \E i \in 1..N : SaveFillFinal(i)
    \/ \E i \in 1..N : SaveFillFinalFails(i)
    \/ \E i \in 1..N : Complete(i)
    \/ RunFinish

\* The runner and the result store at the granularity of file operations,
\* with file system faults; every emit runs the store's handlers.
Spec == Init /\ [][Next]_vars

NextStore ==
    \/ RunBegin
    \/ \E i \in 1..N : StartRun(i)
    \/ \E i \in 1..N, success \in BOOLEAN, usage \in Usages : ExecReturn(i, success, usage)
    \/ \E i \in 1..N, message \in {"failed", "timeout"} : ExecThrow(i, message)
    \/ \E i \in 1..N : SaveRunResult(i)
    \/ \E i \in 1..N : Complete(i)
    \/ RunFinish
    \/ TimerFires
    \/ ElapsedTick
    \/ Render

\* The progress aggregator: the runner at the granularity of its events,
\* React's rendering, the throttle timer and the elapsed-time ticker.
StoreSpec == InitStore /\ [][NextStore]_vars

\* ------------------------------------------------------------- progress
\* The runner on a disk whose operations all succeed.
InitLive ==
    /\ InitRunner
    /\ faultBudget = 0
    /\ reactRoot = "legacy"
    /\ horizon = MaxClock

NextLive ==
    \/ RunBegin
    \/ \E i \in 1..N : StartRun(i)
    \/ \E i \in 1..N, success \in BOOLEAN, usage \in Usages : ExecReturn(i, success, usage)
    \/ \E i \in 1..N, message \in {"failed", "timeout"} : ExecThrow(i, message)
    \/ \E i \in 1..N : SaveWriteTemp(i)
    \/ \E i \in 1..N : SaveOpenFinal(i)
    \/ \E i \in 1..N : SaveReadTempFails(i)
    \/ \E i \in 1..N : SaveFillFinal(i)
    \/ \E i \in 1..N : Complete(i)
    \/ RunFinish

\* Every remote call settles (it resolves, fails or is aborted by its
\* timeout), every file operation finishes and the event loop runs every
\* continuation that is ready: a step is taken whenever one is possible.
LiveSpec == InitLive /\ [][NextLive]_vars /\ WF_vars(NextLive)

\* ------------------------------------------------- remote calls and timeouts
\* The runner on a working disk, with every remote call under its abort signal
\* and the clock observed up to MaxTime.
InitTime ==
    /\ InitRunner
    /\ faultBudget = 0
    /\ reactRoot = "legacy"
    /\ horizon = MaxTime

\* The tasks with a remote call in flight: the model call ("exec") or the
\* judge call of a text test ("judge").
InFlight == {i \in 1..N : pc[i] \in {"exec", "judge"}}

\* When the call in flight was issued: the model call right after
\* startTime = Date.now(), the judge call right after
\* durationMs = Date.now() - startTime.
CallStart(i) ==
    IF pc[i] = "judge" THEN started[i] + response[i][1].durationMs
    ELSE started[i]

\* AbortSignal.timeout(this.timeoutSeconds * 1000), created with the call
Deadline(i) == CallStart(i) + TimeoutMs

\* The abort timers fire on time: the clock does not pass the deadline of a
\* call in flight without that call being aborted.
TimersOnTime == \A j \in InFlight : clock' <= Deadline(j)

ResolvesInTime(i) == clock' < Deadline(i) /\ TimersOnTime

AbortedByTimeout(i) == clock' = Deadline(i) /\ TimersOnTime

Settles(i, message) ==
    IF message = "timeout" THEN AbortedByTimeout(i) ELSE ResolvesInTime(i)

\* the RunResult returned by executeTextTest; judge is what judgeTextResponse
\* returned
TextResult(i, judge) ==
    [testName   |-> tasks[i].test,
     modelName  |-> tasks[i].model,
     runIndex   |-> tasks[i].runIndex,
     timestamp  |-> toISOString(clock'),
     success    |-> judge.success,
     reason     |-> judge.reason,
     durationMs |-> response[i][1].durationMs,
     tokenUsage |-> [input  |-> response[i][1].usage[1],
                     output |-> response[i][1].usage[2],
                     total  |-> Plus(Plus(response[i][1].usage[1],
                                               response[i][1].usage[2]),
                                          judge.tokensUsed)]]

\* executeStructuredTest: generateObject resolves before its abort signal
\* fires and the validated result is returned.
StructuredReturns(i, success, usage) ==
    /\ TestType(tasks[i].test) = "structured-output"
    /\ ExecReturn(i, success, usage)
    /\ ResolvesInTime(i)

\* executeTextTest: generateText resolves before its abort signal fires;
\* durationMs and tokenUsage are computed and the judge is called.
ModelReturns(i, usage) ==
    /\ runPc = "awaiting"
    /\ pc[i] = "exec"
    /\ TestType(tasks[i].test) = "text"
    /\ TimePasses
    /\ ResolvesInTime(i)
    /\ response' = [response EXCEPT
            ![i] = <<[durationMs |-> clock' - started[i], usage |-> usage]>>]
    /\ pc' = [pc EXCEPT ![i] = "judge"]
    /\ UNCHANGED <<combinerVars, config, judgeCapability, faultBudget, reactRoot, horizon, runPc, tasks,
                   attempt, threw, started, cur, buf, results, events, disk,
                   writers, saveFailed, faults, storeVars>>

\* judgeTextResponse: generateObject resolves before its abort signal fires;
\* executeTextTest returns the judged result.
JudgeReturns(i, success, tokensUsed) ==
    /\ runPc = "awaiting"
    /\ pc[i] = "judge"
    /\ TimePasses
    /\ ResolvesInTime(i)
    /\ cur' = [cur EXCEPT ![i] = <<TextResult(i,
            [success    |-> success,
             reason     |-> IF success THEN <<"ok">> ELSE <<"wrong answer">>,
             tokensUsed |-> tokensUsed])>>]
    /\ pc' = [pc EXCEPT ![i] = "save_temp"]
    /\ UNCHANGED <<combinerVars, config, judgeCapability, faultBudget, reactRoot, horizon, response, runPc,
                   tasks, attempt, threw, started, buf, results, events, disk,
                   writers, saveFailed, faults, storeVars>>

\* judgeTextResponse without its try/catch: the failure of the judge call
\* reaches the catch block of executeRun.
JudgeFailsUncaught(i, message) ==
    /\ runPc = "awaiting"
    /\ pc[i] = "judge"
    /\ threw' = [threw EXCEPT ![i] = <<message>>]
    /\ Catch(i, message)
    /\ Settles(i, message)
    /\ UNCHANGED <<combinerVars, config, judgeCapability, faultBudget, reactRoot, horizon, response, runPc, tasks, started, buf,
                   results, disk, writers, saveFailed, faults>>

\* judgeTextResponse: generateObject throws, or its abort signal fires; the
\* catch block of judgeTextResponse returns the fallback judgment.
JudgeFails(i, message) ==
    /\ runPc = "awaiting"
    /\ pc[i] = "judge"
    /\ TimePasses
    /\ Settles(i, message)
    /\ cur' = [cur EXCEPT ![i] = <<TextResult(i,
            [success    |-> FALSE,
             reason     |-> <<"Judge evaluation failed: ", message>>,
             tokensUsed |-> 0])>>]
    /\ pc' = [pc EXCEPT ![i] = "save_temp"]
    /\ UNCHANGED <<combinerVars, config, judgeCapability, faultBudget, reactRoot, horizon, response, runPc,
                   tasks, attempt, threw, started, buf, results, events, disk,
                   writers, saveFailed, faults, storeVars>>

\* generateText / generateObject of the model under test throws, or its abort
\* signal fires: the error reaches the catch block of executeRun.
ModelFails(i, message) ==
    /\ ExecThrow(i, message)
    /\ Settles(i, message)

NextTime ==
    \/ RunBegin
    \/ \E i \in 1..N : StartRun(i)
    \/ \E i \in 1..N, success \in BOOLEAN, usage \in Usages :
          StructuredReturns(i, success, usage)
    \/ \E i \in 1..N, usage \in Usages : ModelReturns(i, usage)
    \/ \E i \in 1..N, success \in BOOLEAN, tokensUsed \in 0..MaxTokens :
          JudgeReturns(i, success, tokensUsed)
    \/ \E i \in 1..N, message \in {"failed", "timeout"} : JudgeFails(i, message)
    \/ \E i \in 1..N, message \in {"failed", "timeout"} : ModelFails(i, message)
    \/ \E i \in 1..N : SaveRunResult(i)
    \/ \E i \in 1..N : Complete(i)
    \/ RunFinish

\* The runner at the granularity of remote calls, each under its own abort
\* timer.
TimeSpec == InitTime /\ [][NextTime]_vars

\* ------------------------------------------------------------ the combiner
\* z.number()
IsNumber(v) == v # JsonNull /\ v # NaN

\* RunResultSchema.parse(parsed) does not throw.  Strings and booleans of a
\* file written by saveRunResult have their type; rawOutput and judgeOutput are
\* z.unknown().
RunResultSchemaAccepts(parsed) ==
    /\ IsNumber(parsed.runIndex)
    /\ IsNumber(parsed.durationMs)
    /\ IsNumber(parsed.tokenUsage.input)
    /\ IsNumber(parsed.tokenUsage.output)
    /\ IsNumber(parsed.tokenUsage.total)

\* a filter that lets every file of the directory through
IsAnyFile(f) == TRUE

\* files.filter((f) => f.endsWith(".json")): a temporary file ends with .tmp
IsJsonFile(f) == ~f.path.tmp

\* The body of the try block of readRunFiles does not throw: JSON.parse fails
\* on an empty or partial file (content <<>>), RunResultSchema.parse on a
\* value that does not fit.
IsValidRunFile(f) == f.content # <<>> /\ RunResultSchemaAccepts(f.content[1])

\* readdir: the entries of a directory in the order the file system lists
\* them, which is some order that depends on the directory alone.
RECURSIVE ReaddirUnstable(_)
ReaddirUnstable(entries) ==
    IF entries = {} THEN <<>>
    ELSE LET e == CHOOSE x \in entries : TRUE
         IN  IF combines = <<>> THEN <<e>> \o ReaddirUnstable(entries \ {e})
             ELSE ReaddirUnstable(entries \ {e}) \o <<e>>
RECURSIVE Readdir(_)
Readdir(entries) ==
    IF entries = {} THEN <<>>
    ELSE LET e == CHOOSE x \in entries : TRUE
         IN  <<e>> \o Readdir(entries \ {e})

\* readRunFiles(modelDir), given the listing of modelDir
readRunFilesAborting(listing) ==
    LET jsonFiles == SelectSeq(listing, IsJsonFile)
        valid == SelectSeq(jsonFiles, IsValidRunFile)
    IN  [results  |-> IF Len(valid) < Len(jsonFiles) THEN <<>>
                      ELSE [k \in 1..Len(valid) |-> valid[k].content[1]],
         warnings |-> Len(jsonFiles) - Len(valid)]
readRunFiles(listing) ==
    LET jsonFiles == SelectSeq(listing, IsJsonFile)
        valid == SelectSeq(jsonFiles, IsValidRunFile)
    IN  [results  |-> [k \in 1..Len(valid) |-> valid[k].content[1]],
         warnings |-> Len(jsonFiles) - Len(valid)]

\* a / b as a fraction, 0 when there is nothing to divide by
RatioUnguarded(a, b) == <<a, b>>
Ratio(a, b) == IF b > 0 THEN <<a, b>> ELSE <<0, 1>>

SumOf(runs, Field(_)) == SeqSum([k \in 1..Len(runs) |-> Field(runs[k])])

TokenTotals(runs) ==
    [input     |-> SumOf(runs, LAMBDA r : r.tokenUsage.input),
     output    |-> SumOf(runs, LAMBDA r : r.tokenUsage.output),
     reasoning |-> 0,
     total     |-> SumOf(runs, LAMBDA r : r.tokenUsage.total)]

TokenAverages(totals, totalRuns) ==
    [k \in DOMAIN totals |-> Ratio(totals[k], totalRuns)]

computeTestSummary(testName, runs) ==
    LET totalRuns == Len(runs)
        successfulRuns == Len(SelectSeq(runs, LAMBDA r : r.success))
    IN  [testName       |-> testName,
         totalRuns      |-> totalRuns,
         successfulRuns |-> successfulRuns,
         failedRuns     |-> totalRuns - successfulRuns,
         successRate    |-> Ratio(successfulRuns * 100, totalRuns),
         avgDurationMs  |-> Ratio(SumOf(runs, LAMBDA r : r.durationMs), totalRuns),
         avgTokenUsage  |-> TokenAverages(TokenTotals(runs), totalRuns),
         runs           |-> runs]

\* The order of the characters the names of the model use: by UTF-16 code unit
\* (Array.prototype.sort without a comparator) and by collation
\* (String.prototype.localeCompare).
CodeUnitOrder == <<" ", "-", "0", "1", "2", "3", "4", "5", "6", "7", "8", "9",
                   "T", "Z", "_", "a", "b", "c", "o">>
CollationOrder == <<" ", "_", "-", "0", "1", "2", "3", "4", "5", "6", "7", "8",
                    "9", "a", "b", "c", "o", "T", "Z">>

Rank(order, ch) == CHOOSE k \in 1..Len(order) : order[k] = ch

\* a sorts before b, character by character; a prefix sorts first
RECURSIVE Before(_, _, _)
Before(order, a, b) ==
    IF a = <<>> THEN b # <<>>
    ELSE IF b = <<>> THEN FALSE
    ELSE IF a[1] # b[1] THEN Rank(order, a[1]) < Rank(order, b[1])
    ELSE Before(order, Tail(a), Tail(b))

\* Array.prototype.sort (stable) of <<key, value>> pairs by their keys: x goes
\* after the elements that do not sort after it.
RECURSIVE Insert(_, _, _)
Insert(order, sorted, x) ==
    IF sorted = <<>> THEN <<x>>
    ELSE IF Before(order, x[1], sorted[1][1]) THEN <<x>> \o sorted
    ELSE <<sorted[1]>> \o Insert(order, Tail(sorted), x)

RECURSIVE SortPairs(_, _)
SortPairs(order, pairs) ==
    IF pairs = <<>> THEN <<>>
    ELSE Insert(order, SortPairs(order, SubSeq(pairs, 1, Len(pairs) - 1)),
                pairs[Len(pairs)])

\* seq sorted by (a, b) => key(a) before key(b)
SortBy(order, seq, Key(_)) ==
    LET sorted == SortPairs(order, [k \in 1..Len(seq) |-> <<Key(seq[k]), seq[k]>>])
    IN  [k \in 1..Len(sorted) |-> sorted[k][2]]

\* The keys of runsByTest, in the order of their first run.
RECURSIVE TestNames(_)
TestNames(runs) ==
    IF runs = <<>> THEN <<>>
    ELSE LET before == TestNames(SubSeq(runs, 1, Len(runs) - 1))
             name == runs[Len(runs)].testName
         IN  IF name \in Range(before) THEN before ELSE Append(before, name)

computeModelSummary(modelName, runs) ==
    LET names == TestNames(runs)
        unsorted == [k \in 1..Len(names) |->
            computeTestSummary(names[k],
                SelectSeq(runs, LAMBDA r : r.testName = names[k]))]
        testSummaries == SortBy(CollationOrder, unsorted, LAMBDA t : t.testName)
        totalRuns == Len(runs)
        successfulRuns == Len(SelectSeq(runs, LAMBDA r : r.success))
        totalDurationMs == SumOf(runs, LAMBDA r : r.durationMs)
    IN  [modelName       |-> modelName,
         totalTests      |-> Len(names),
         totalRuns       |-> totalRuns,
         successfulRuns  |-> successfulRuns,
         failedRuns      |-> totalRuns - successfulRuns,
         successRate     |-> Ratio(successfulRuns * 100, totalRuns),
         totalDurationMs |-> totalDurationMs,
         avgDurationMs   |-> Ratio(totalDurationMs, totalRuns),
         totalTokenUsage |-> TokenTotals(runs),
         avgTokenUsage   |-> TokenAverages(TokenTotals(runs), totalRuns),
         testSummaries   |-> testSummaries]

\* combineModelRuns(runsDir, modelName): files are the files of the run
\* directory; a model directory without a valid run gives null (<<>>) and one
\* more warning.
combineModelRuns(files, modelDir) ==
    LET read == readRunFiles(Readdir({f \in files : f.path.dir = modelDir}))
    IN  IF read.results = <<>>
        THEN [summary |-> <<>>, warnings |-> read.warnings + 1]
        ELSE [summary  |-> <<computeModelSummary(modelDir, read.results)>>,
              warnings |-> read.warnings]

\* the summary of the early returns of combineRunDir and combineAllRuns
EmptySummary(now) ==
    [generatedAt        |-> toISOString(now),
     totalModels        |-> 0,
     totalTests         |-> 0,
     totalRuns          |-> 0,
     overallSuccessRate |-> Ratio(0, 1),
     totalDurationMs    |-> 0,
     totalTokens        |-> 0,
     modelSummaries     |-> <<>>]

\* outputFilename ? `${outputFilename}-summary.json`
\*                : `${benchmarkName}-${runTimestamp}-summary.json`
SummaryFilename(benchmarkName, runTimestamp, outputFilename) ==
    IF outputFilename # <<>> THEN outputFilename \o <<"-summary.json">>
    ELSE benchmarkName \o <<"-">> \o runTimestamp \o <<"-summary.json">>

\* combineRunDir(runDir, benchmarkName, runTimestamp, outputFilename): what it
\* returns, how many warnings it logs and the summary file it writes, if any.
combineRunDir(dirExists, files, benchmarkName, runTimestamp, outputFilename, now) ==
    LET modelDirs == Readdir({f.path.dir : f \in files})
        combined == [k \in 1..Len(modelDirs) |-> combineModelRuns(files, modelDirs[k])]
        present == SelectSeq(combined, LAMBDA c : c.summary # <<>>)
        modelSummaries ==
            SortBy(CollationOrder, [k \in 1..Len(present) |-> present[k].summary[1]],
                   LAMBDA m : m.modelName)
        totalRuns == SumOf(modelSummaries, LAMBDA m : m.totalRuns)
        successfulRuns == SumOf(modelSummaries, LAMBDA m : m.successfulRuns)
        uniqueTests == UNION {{t.testName : t \in Range(m.testSummaries)} :
                                  m \in Range(modelSummaries)}
    IN  IF ~dirExists \/ modelDirs = <<>>
        THEN [summary |-> EmptySummary(now), warnings |-> 0, wrote |-> <<>>]
        ELSE [summary |->
                 [generatedAt        |-> toISOString(now),
                  totalModels        |-> Len(modelSummaries),
                  totalTests         |-> Cardinality(uniqueTests),
                  totalRuns          |-> totalRuns,
                  overallSuccessRate |-> Ratio(successfulRuns * 100, totalRuns),
                  totalDurationMs    |-> SumOf(modelSummaries, LAMBDA m : m.totalDurationMs),
                  totalTokens        |-> SumOf(modelSummaries,
                                               LAMBDA m : m.totalTokenUsage.total),
                  modelSummaries     |-> modelSummaries],
              warnings |-> SumOf(combined, LAMBDA c : c.warnings),
              wrote |-> <<SummaryFilename(benchmarkName, runTimestamp, outputFilename)>>]

\* The timestamp at the end of a run directory name, <<>> when there is none:
\* /-(\d{4}-\d{2}-\d{2}T\d{2}-\d{2}-\d{2}-\d{3}Z)$/ for the timestamps of the
\* model, which read T<d>-<d>-<d>Z.
Digits == {Digit(n) : n \in 0..9}

MatchTimestamp(name) ==
    LET n == Len(name)
    IN  IF /\ n >= 8
           /\ name[n - 7] = "-"
           /\ name[n - 6] = "T"
           /\ name[n - 5] \in Digits
           /\ name[n - 4] = "-"
           /\ name[n - 3] \in Digits
           /\ name[n - 2] = "-"
           /\ name[n - 1] \in Digits
           /\ name[n] = "Z"
        THEN <<SubSeq(name, n - 6, n)>>
        ELSE <<>>

\* The benchmark of this session and the run directory of its runner:
\* `${sanitizeForFilename(benchmarkName)}-${runTimestamp}`, the timestamp taken
\* when the runner is constructed.
BenchmarkName == <<"b">>
RunTimestamp == TimestampForFilename(toISOString(0))
RunDir == sanitizeForFilename(BenchmarkName) \o <<"-">> \o RunTimestamp

\* Run directories earlier sessions left in outputDir: one of benchmark c, one
\* of a later session of benchmark a, holding one run each, and an empty one
\* without a timestamp.
EarlierRunDir == <<"c", "-">> \o TimestampForFilename(toISOString(0))
LaterRunDir == <<"a", "-">> \o TimestampForFilename(toISOString(1))
OtherDir == <<"o">>
SiblingNames == {EarlierRunDir, LaterRunDir, OtherDir}

\* the RunResults those sessions saved
EarlierRun ==
    [testName   |-> TestX,
     modelName  |-> ModelC,
     runIndex   |-> 0,
     timestamp  |-> toISOString(0),
     success    |-> FALSE,
     reason     |-> <<"wrong answer">>,
     durationMs |-> 0,
     tokenUsage |-> [input |-> 0, output |-> 0, total |-> 0]]

LaterRun ==
    [testName   |-> TestX,
     modelName  |-> ModelC,
     runIndex   |-> 0,
     timestamp  |-> toISOString(1),
     success    |-> TRUE,
     reason     |-> <<"ok">>,
     durationMs |-> 1,
     tokenUsage |-> [input |-> 1, output |-> 1, total |-> 2]]

\* the files of a run directory of outputDir
FilesOf(runDir) ==
    IF runDir = RunDir THEN disk
    ELSE IF runDir = LaterRunDir
    THEN {[path |-> FinalPath(LaterRun), content |-> <<JSONStringify(LaterRun)>>]}
    ELSE IF runDir = EarlierRunDir
    THEN {[path |-> FinalPath(EarlierRun), content |-> <<JSONStringify(EarlierRun)>>]}
    ELSE {}

\* combineAllRuns(runsDir, outputFilename): runDirs are the directories of
\* runsDir (none when runsDir is missing or empty: both return early).  chosen
\* is mostRecentRunDir.
combineAllRuns(runDirs, outputFilename, now) ==
    IF runDirs = {}
    THEN [summary |-> EmptySummary(now), warnings |-> 0, wrote |-> <<>>,
          chosen |-> <<>>]
    ELSE LET sorted == SortBy(CodeUnitOrder, Readdir(runDirs), LAMBDA d : d)
             mostRecentRunDir == sorted[Len(sorted)]
             timestampMatch == MatchTimestamp(mostRecentRunDir)
             runTimestamp ==
                 IF timestampMatch # <<>> THEN timestampMatch[1]
                 ELSE TimestampForFilename(toISOString(now))
             benchmarkName ==
                 IF timestampMatch # <<>>
                 THEN SubSeq(mostRecentRunDir, 1,
                             Len(mostRecentRunDir) - Len(runTimestamp) - 1)
                 ELSE mostRecentRunDir
             combined == combineRunDir(TRUE, FilesOf(mostRecentRunDir), benchmarkName,
                                       runTimestamp, outputFilename, now)
         IN  [summary |-> combined.summary, warnings |-> combined.warnings,
              wrote |-> combined.wrote, chosen |-> <<mostRecentRunDir>>]

\* the directories of outputDir; mkdir(modelDir, {recursive: true}) of
\* saveRunResult creates the run directory of this session
RunDirsNow == siblings \cup (IF disk # {} THEN {RunDir} ELSE {})

\* --output of the command line: absent or a name
Outputs == {<<>>, <<"o">>}

\* a file of the run directory that JSON.parse rejects
ForeignPath(dir) == [dir |-> dir, file |-> <<"x", ".json">>, tmp |-> FALSE]
ForeignFiles == {f \in disk : f.path.file = <<"x", ".json">>}

\* The runner and the result store on a working disk, one item at a time, the
\* store flushing synchronously.
InitCombine ==
    /\ InitRunner
    /\ config.parallelLimit = 1
    /\ faultBudget = 0
    /\ reactRoot = "legacy"
    /\ horizon = MaxClock

\* a session that ran earlier left its run directory
MkSibling(name) ==
    /\ runPc = "init"
    /\ combines = <<>>
    /\ name \notin siblings
    /\ siblings' = siblings \cup {name}
    /\ UNCHANGED <<runnerVars, clock, storeVars, resultsDir, combines>>

\* an unparsable .json file appears in the run directory, inside a model
\* directory or a directory of its own
ForeignFile(dir) ==
    /\ runPc = "returned"
    /\ combines = <<>>
    /\ Cardinality(ForeignFiles) < MaxForeign
    /\ dir \in {f.path.dir : f \in disk} \cup {OtherDir}
    /\ disk' = WriteFile(disk, ForeignPath(dir), <<>>)
    /\ UNCHANGED <<config, runPc, judgeCapability, tasks, pc, attempt, threw, started, cur, buf,
                   results, events, writers, saveFailed, faults, faultBudget,
                   reactRoot, horizon, response, clock, storeVars, combinerVars>>

Invocation(fn, outputFilename, target, returned) ==
    [fn       |-> fn,
     output   |-> outputFilename,
     runDirs  |-> RunDirsNow,
     target   |-> target,
     tree     |-> IF target = <<>> THEN {} ELSE FilesOf(target[1]),
     summary  |-> returned.summary,
     warnings |-> returned.warnings,
     wrote    |-> returned.wrote]

\* main() of index.tsx after runner.run() returned: combineRunDir on the run
\* directory of the runner.  The function is exported and may be called again.
CombineRunDir(outputFilename) ==
    /\ runPc = "returned"
    /\ Len(combines) < MaxCombines
    /\ TimePasses
    /\ \E returned \in {combineRunDir(disk # {}, disk, BenchmarkName, RunTimestamp,
                                       outputFilename, clock')} :
           /\ combines' = Append(combines, Invocation("combineRunDir", outputFilename,
                                                      <<RunDir>>, returned))
           /\ resultsDir' = resultsDir \cup Range(returned.wrote)
    /\ UNCHANGED <<runnerVars, storeVars, siblings>>

\* --combine-only, or combine-runs.ts run directly, while no session is running
CombineAllRuns(outputFilename) ==
    /\ runPc \in {"init", "returned"}
    /\ Len(combines) < MaxCombines
    /\ TimePasses
    /\ \E returned \in {combineAllRuns(RunDirsNow, outputFilename, clock')} :
           /\ combines' = Append(combines, Invocation("combineAllRuns", outputFilename,
                                                      returned.chosen, returned))
           /\ resultsDir' = resultsDir \cup Range(returned.wrote)
    /\ UNCHANGED <<runnerVars, storeVars, siblings>>

NextCombine ==
    \/ siblings = {} /\ RunBegin
    \/ \E i \in 1..N : StartRun(i)
    \/ \E i \in 1..N, usage \in UsagesOrNaN : ExecReturn(i, TRUE, usage)
    \/ \E i \in 1..N : ExecThrow(i, "failed")
    \/ \E i \in 1..N : SaveRunResult(i)
    \/ \E i \in 1..N : Complete(i)
    \/ RunFinish
    \/ \E name \in SiblingNames : MkSibling(name)
    \/ \E dir \in {f.path.dir : f \in disk} \cup {OtherDir} : ForeignFile(dir)
    \/ \E outputFilename \in Outputs : CombineRunDir(outputFilename)
    \/ \E outputFilename \in Outputs : CombineAllRuns(outputFilename)

\* A benchmark session in a fresh output directory followed by the combiner,
\* and the combiner alone on the run directories of earlier sessions.
CombineSpec == InitCombine /\ [][NextCombine]_vars

\* ------------------------------------------------------ repeated delivery
\* the entries of the completed list for the work item of task i
CompletedEntries(i) ==
    {k \in DOMAIN completedResultsRef :
        SameRun(completedResultsRef[k], tasks[i].test, tasks[i].model, tasks[i].runIndex)}

\* The store's run:complete listener is called once more with the result of
\* an item that has completed (an emitter that delivers an event twice).
RedeliverRunComplete(i) ==
    /\ runPc \in {"awaiting", "returned"}
    /\ pc[i] = "done"
    /\ Cardinality(CompletedEntries(i)) = 1
    /\ NoTimePasses
    /\ events' = Emit("run:complete", i)
    /\ handleRunComplete(cur[i][1])
    /\ UNCHANGED <<combinerVars, config, judgeCapability, faultBudget, reactRoot, horizon, response,
                   runPc, tasks, pc, attempt, threw, started, cur, buf, results,
                   disk, writers, saveFailed, faults>>

InitDelivery ==
    /\ InitRunner
    /\ faultBudget = 0
    /\ reactRoot = "legacy"
    /\ horizon = MaxClock

NextDelivery ==
    \/ RunBegin
    \/ \E i \in 1..N : StartRun(i)
    \/ \E i \in 1..N, success \in BOOLEAN, usage \in Usages : ExecReturn(i, success, usage)
    \/ \E i \in 1..N, message \in {"failed", "timeout"} : ExecThrow(i, message)
    \/ \E i \in 1..N : SaveRunResult(i)
    \/ \E i \in 1..N : Complete(i)
    \/ RunFinish
    \/ \E i \in 1..N : RedeliverRunComplete(i)

\* The runner on a working disk and the store behind an emitter that may
\* deliver run:complete twice.
DeliverySpec == InitDelivery /\ [][NextDelivery]_vars

\* ------------------------------------------------------------------ main()
\* main() of the command line program up to the settlement of runner.run(),
\* for an invocation without --combine-only.  Every step before the runner is
\* constructed either goes on or ends the process with exit code 1: validateEnv
\* calls process.exit(1) itself, the other steps throw into the catch block of
\* the command's action, which prints the message and calls process.exit(1).
Exits == {"exit:env", "exit:options", "exit:benchmark", "exit:models", "exit:judge"}

\* benchmark.tests.some((test) => test.type === "text")
hasTextTests == \E k \in DOMAIN config.tests : TestType(config.tests[k]) = "text"

\* what a step of main() before the runner leaves alone
startupFrame == <<config, tasks, pc, attempt, threw, started, cur, buf, results,
                  events, disk, writers, saveFailed, faults, faultBudget,
                  reactRoot, horizon, response, clock, storeVars, combinerVars>>

\* validateEnv(): EnvSchema.safeParse(process.env)
validateEnv(ok) ==
    /\ runPc = "main"
    /\ runPc' = IF ok THEN "parse" ELSE "exit:env"
    /\ UNCHANGED <<judgeCapability, startupFrame>>

\* CLIOptionsSchema.parse(options)
ParseOptions(ok) ==
    /\ runPc = "parse"
    /\ runPc' = IF ok THEN "loadBenchmark" ELSE "exit:options"
    /\ UNCHANGED <<judgeCapability, startupFrame>>

\* loadBenchmark: the file is missing or exports no Benchmark, or config.tests
\* is what it exports
loadBenchmark(ok) ==
    /\ runPc = "loadBenchmark"
    /\ runPc' = IF ok THEN "loadModels" ELSE "exit:benchmark"
    /\ UNCHANGED <<judgeCapability, startupFrame>>

\* loadModels: no model is configured or the requested one is not found, or
\* config.models is what it returns
loadModels(ok) ==
    /\ runPc = "loadModels"
    /\ runPc' = IF ok THEN "verifyJudge" ELSE "exit:models"
    /\ UNCHANGED <<judgeCapability, startupFrame>>

\* verifyJudgeModelCapability that logs the failure of the probe and returns.
verifyJudgeModelCapabilityWarnOnly(outcome) ==
    /\ runPc = "verifyJudge"
    /\ IF hasTextTests
       THEN judgeCapability' = outcome
       ELSE outcome = "ok" /\ UNCHANGED judgeCapability
    /\ runPc' = "init"
    /\ UNCHANGED startupFrame

\* if (hasTextTests) await verifyJudgeModelCapability(benchmark.judgeModel):
\* the generateObject probe resolves ("ok"), throws ("failed") or is aborted
\* after 30 s ("timeout"); a probe that did not resolve is re-thrown.  Then
\* the runner is constructed and the UI rendered.
verifyJudgeModelCapability(outcome) ==
    /\ runPc = "verifyJudge"
    /\ IF hasTextTests
       THEN /\ judgeCapability' = outcome
            /\ runPc' = IF outcome = "ok" THEN "init" ELSE "exit:judge"
       ELSE /\ outcome = "ok"
            /\ runPc' = "init"
            /\ UNCHANGED judgeCapability
    /\ UNCHANGED startupFrame

InitMain ==
    /\ runPc = "main"
    /\ InitProcess
    /\ faultBudget = MaxFaults
    /\ reactRoot = "legacy"
    /\ horizon = MaxClock

NextMain ==
    \/ \E ok \in BOOLEAN : validateEnv(ok)
    \/ \E ok \in BOOLEAN : ParseOptions(ok)
    \/ \E ok \in BOOLEAN : loadBenchmark(ok)
    \/ \E ok \in BOOLEAN : loadModels(ok)
    \/ \E outcome \in {"ok", "failed", "timeout"} : verifyJudgeModelCapability(outcome)
    \/ Next

\* The program from the start of main(): start-up, then the runner with a
\* failing disk.
MainSpec == InitMain /\ [][NextMain]_vars

\* ------------------------------------------------------- the whole matrix
\* Runs of up to MaxMatrixItems work items (two or three models, one or two
\* tests, up to MaxMatrixRuns runs of each) on a working disk, with model calls
\* that return or throw; runs of more than MaxOverlapItems items are serial.
MatrixConfigs ==
    {c \in [models : {<<ModelC>>, <<ModelC, ModelA>>, <<ModelA, ModelB, ModelC>>},
            tests : TestLists,
            runsPerTest : 1..MaxMatrixRuns, parallelLimit : 1..MaxParallel] :
        /\ Len(c.models) * Len(c.tests) * c.runsPerTest <= MaxMatrixItems
        /\ c.parallelLimit = 1 \/ Len(c.models) * Len(c.tests) * c.runsPerTest <= MaxOverlapItems}

InitMatrix ==
    /\ runPc = "init"
    /\ InitProcessOf(MatrixConfigs)
    /\ faultBudget = 0
    /\ reactRoot = "legacy"
    /\ horizon = 0

NextMatrix ==
    \/ RunBegin
    \/ \E i \in 1..N : StartRun(i)
    \/ \E i \in 1..N : ExecReturn(i, TRUE, <<0, 0>>)
    \/ \E i \in 1..N : ExecThrow(i, "failed")
    \/ \E i \in 1..N : SaveRunResult(i)
    \/ \E i \in 1..N : Complete(i)
    \/ RunFinish

MatrixSpec == InitMatrix /\ [][NextMatrix]_vars

\* ------------------------------------------- the combiner during a session
\* combineRunDir called on the run directory of a session that is still
\* persisting results, or whose process has ended in the middle of a write
\* (the runner then takes no further step).
CombineDuringRun(outputFilename) ==
    /\ runPc \in {"awaiting", "rejected"}
    /\ combines = <<>>
    /\ TimePasses
    /\ \E returned \in {combineRunDir(disk # {}, disk, BenchmarkName, RunTimestamp,
                                       outputFilename, clock')} :
           /\ combines' = Append(combines, Invocation("combineRunDir", outputFilename,
                                                      <<RunDir>>, returned))
           /\ resultsDir' = resultsDir \cup Range(returned.wrote)
    /\ UNCHANGED <<runnerVars, storeVars, siblings>>

NextDuring ==
    \/ RunBegin
    \/ \E i \in 1..N : StartRun(i)
    \/ \E i \in 1..N : ExecReturn(i, TRUE, <<MaxTokens, MaxTokens>>)
    \/ \E i \in 1..N : ExecThrow(i, "failed")
    \/ \E i \in 1..N : SaveWriteTemp(i)
    \/ \E i \in 1..N, partial \in BOOLEAN : SaveWriteTempFails(i, partial)
    \/ \E i \in 1..N : SaveOpenFinal(i)
    \/ \E i \in 1..N : SaveReadTempFails(i)
    \/ \E i \in 1..N : SaveFillFinal(i)
    \/ \E i \in 1..N : SaveFillFinalFails(i)
    \/ \E i \in 1..N : Complete(i)
    \/ RunFinish
    \/ CombineDuringRun(<<>>)

\* The runner at the granularity of file operations, with file system faults,
\* and one combination of its run directory at any moment of the session.
DuringSpec == Init /\ [][NextDuring]_vars

\* ------------------------------------------- BenchmarkRunner of src/index.ts
\* The second BenchmarkRunner of the repository.  Its run(), its try block and
\* its saveRunResult read like those of the persistence module; its catch
\* block emits run:error without runIndex and ends after
\* this.results.push(failedResult), without run:complete.
CatchIndexTs(i, message) ==
    /\ TimePasses
    /\ attempt' = [attempt EXCEPT ![i] = 2]
    /\ events' = Emit("run:error", i)
    /\ handleRunError(tasks[i].test, tasks[i].model, Undefined, message)
    /\ cur' = [cur EXCEPT ![i] = <<FailedResult(i, message)>>]
    /\ pc' = [pc EXCEPT ![i] = "save_temp"]

ExecThrowIndexTs(i, message) ==
    /\ runPc = "awaiting"
    /\ pc[i] = "exec"
    /\ threw' = [threw EXCEPT ![i] = <<message>>]
    /\ CatchIndexTs(i, message)
    /\ UNCHANGED <<combinerVars, config, judgeCapability, faultBudget, reactRoot, horizon, response, runPc, tasks, started, buf,
                   results, disk, writers, saveFailed, faults>>

\* the end of the catch block: the failed result is pushed and executeRun
\* returns
CompleteFailedIndexTs(i) ==
    /\ runPc = "awaiting"
    /\ pc[i] = "save_unlink"
    /\ attempt[i] = 2
    /\ NoTimePasses
    /\ disk' = Unlink(disk, TempPath(cur[i][1]))
    /\ results' = PushResult(cur[i][1])
    /\ pc' = [pc EXCEPT ![i] = "done"]
    /\ UNCHANGED <<combinerVars, config, judgeCapability, faultBudget, reactRoot, horizon, response, runPc, tasks, attempt, threw,
                   started, cur, buf, writers, saveFailed, faults, events, storeVars>>

NextIndexTs ==
    \/ RunBegin
    \/ \E i \in 1..N : StartRun(i)
    \/ \E i \in 1..N, success \in BOOLEAN, usage \in Usages : ExecReturn(i, success, usage)
    \/ \E i \in 1..N, message \in {"failed", "timeout"} : ExecThrowIndexTs(i, message)
    \/ \E i \in 1..N : SaveRunResult(i)
    \/ \E i \in 1..N : attempt[i] = 1 /\ Complete(i)
    \/ \E i \in 1..N : CompleteFailedIndexTs(i)
    \/ RunFinish

IndexTsSpec == InitLive /\ [][NextIndexTs]_vars

\* ------------------------------------------------------ throwing listeners
\* emit() is EventEmitter.emit: the listeners run synchronously inside the call
\* and what a listener throws is thrown by emit.  this.emit("run:complete",
\* result) is the last statement of the try block of executeRun: the store's
\* handler has run, a later listener throws, and the error is caught by the
\* catch block of the same executeRun, after the result was saved and pushed.
CompleteListenerThrows(i) ==
    /\ runPc = "awaiting"
    /\ pc[i] = "save_unlink"
    /\ attempt[i] = 1
    /\ NoTimePasses
    /\ disk' = Unlink(disk, TempPath(cur[i][1]))
    /\ results' = PushResult(cur[i][1])
    /\ events' = Emit("run:complete", i)
    /\ handleRunComplete(cur[i][1])
    /\ pc' = [pc EXCEPT ![i] = "listener_threw"]
    /\ UNCHANGED <<combinerVars, config, judgeCapability, faultBudget, reactRoot, horizon, response, runPc, tasks, attempt, threw,
                   started, cur, buf, writers, saveFailed, faults>>

\* the catch block of executeRun, entered with the listener's error
CatchListenerError(i) ==
    /\ runPc = "awaiting"
    /\ pc[i] = "listener_threw"
    /\ Catch(i, "listener")
    /\ UNCHANGED <<combinerVars, config, judgeCapability, faultBudget, reactRoot, horizon, response, runPc, tasks, threw, started, buf,
                   results, disk, writers, saveFailed, faults>>

NextListener ==
    \/ RunBegin
    \/ \E i \in 1..N : StartRun(i)
    \/ \E i \in 1..N, success \in BOOLEAN, usage \in Usages : ExecReturn(i, success, usage)
    \/ \E i \in 1..N, message \in {"failed", "timeout"} : ExecThrow(i, message)
    \/ \E i \in 1..N : SaveRunResult(i)
    \/ \E i \in 1..N : Complete(i)
    \/ \E i \in 1..N : CompleteListenerThrows(i)
    \/ \E i \in 1..N : CatchListenerError(i)
    \/ RunFinish

\* The runner on a working disk with a listener of run:complete that may throw
\* on the event of the try block.
ListenerSpec == InitLive /\ [][NextListener]_vars

\* ------------------------------------------------------------------ claims
EventsOf(type, i) ==
    {k \in 1..Len(events) : events[k].type = type /\ events[k].task = i}

ResultsOf(i) ==
    {k \in 1..Len(results) :
        /\ results[k].testName = tasks[i].test
        /\ results[k].modelName = tasks[i].model
        /\ results[k].runIndex = tasks[i].runIndex}

FinalFiles == {f \in disk : ~f.path.tmp}

\* C1: at every instant the number of work items whose executeRun has begun
\* (run:start emitted) and has not yet returned is at most parallelLimit.
C1_AtMostKRunning ==
    Cardinality({i \in 1..N : EventsOf("run:start", i) # {}
                              /\ pc[i] \notin {"done", "rejected"}})
        <= config.parallelLimit

\* C1 witness: parallelLimit items are running while another one waits.
C1_Witness ==
    /\ Cardinality(ActiveTasks) = config.parallelLimit
    /\ \E i \in 1..N : pc[i] = "queued"

\* C2: when run() returns, the results list holds exactly N results, exactly
\* one per (model, test, runIndex) triple, whatever the outcomes were.
C2_OneResultPerItem ==
    runPc = "returned" =>
        /\ N = Len(config.models) * Len(config.tests) * config.runsPerTest
        /\ Len(results) = N
        /\ \A i \in 1..N : Cardinality(ResultsOf(i)) = 1

\* C2 witness: run() has returned from a batch of two items, one of which
\* threw and one of which succeeded.
C2_Witness ==
    /\ runPc = "returned"
    /\ N = 2
    /\ \E i \in 1..N : threw[i] # <<>>
    /\ \E k \in 1..Len(results) : results[k].success

\* C3: at any instant every result for which run:complete was emitted has its
\* complete file at its final path.
C3_CompletedResultsOnDisk ==
    \A i \in 1..N :
        EventsOf("run:complete", i) # {} =>
            /\ Exists(disk, FinalPath(cur[i][1]))
            /\ ContentOf(disk, FinalPath(cur[i][1])) = <<JSONStringify(cur[i][1])>>

\* C4: benchmark:start is the first event and is emitted once;
\* benchmark:complete is emitted only after run:complete of every item, and no
\* event follows it.
C4_BatchEventsBracketItemEvents ==
    /\ events # <<>> => events[1].type = "benchmark:start"
    /\ \A k \in 2..Len(events) : events[k].type # "benchmark:start"
    /\ \A k \in 1..Len(events) :
          events[k].type = "benchmark:complete" =>
              /\ k = Len(events)
              /\ \A i \in 1..N : \E j \in EventsOf("run:complete", i) : j < k

\* C4 witness: benchmark:complete has been emitted for a batch of two items.
C4_Witness ==
    /\ N = 2
    /\ events # <<>>
    /\ events[Len(events)].type = "benchmark:complete"

C7_SaveFailureIsolated ==
    \A i \in saveFailed :
        /\ runPc # "rejected"
        /\ runPc = "returned" =>
              /\ EventsOf("benchmark:complete", 0) # {}
              /\ \A j \in (1..N) \ {i} :
                    ResultsOf(j) # {} /\ \E w \in writers : w[2] = j

\* C8: the final result path is either absent or holds a complete serialized
\* RunResult, at every step of saveRunResult.
C8_FinalPathNeverPartial ==
    \A f \in FinalFiles : f.content # <<>>

\* C9: within one batch, two distinct work items are never persisted to the
\* same final path.
C9_NoSharedFinalPath ==
    \A v, w \in writers : v[1] = w[1] => v[2] = w[2]

\* C10: before benchmark:complete every snapshot has
\* completedRuns + |activeRuns| <= totalRuns; the snapshot produced on
\* benchmark:complete has no active run and completedRuns = totalRuns.
C10_SnapshotCounts ==
    /\ ~state.isComplete =>
          state.completedRuns + Len(state.activeRuns) <= state.totalRuns
    /\ state.isComplete =>
          /\ state.activeRuns = <<>>
          /\ state.completedRuns = state.totalRuns

\* C10, first half alone.
C10_SnapshotWithinTotal ==
    ~state.isComplete =>
        state.completedRuns + Len(state.activeRuns) <= state.totalRuns

\* C11: every runner event is applied to the aggregator as one atomic
\* transition, so that no event's effect is lost or duplicated: once run() has
\* returned and every pending and deferred flush has run, the snapshot shows
\* every completed result once, no active run, every error once, and counters
\* that count every run:complete event.
C11_NoEventEffectLost ==
    (runPc = "returned" /\ queue = <<>> /\ timers = 0) =>
        /\ state.completedResults = results
        /\ state.activeRuns = <<>>
        /\ Len(state.errors) =
              Cardinality({k \in 1..Len(events) : events[k].type = "run:error"})
        /\ state.completedRuns =
              Cardinality({k \in 1..Len(events) : events[k].type = "run:complete"})
        /\ state.successfulRuns = Len(SelectSeq(results, LAMBDA r : r.success))
        /\ state.failedRuns = state.completedRuns - state.successfulRuns
        /\ state.totalTokens =
              SeqSum([k \in 1..Len(results) |-> results[k].tokenUsage.total])

\* C11, the part held in the refs: the lists of the snapshot that follows the
\* last event lose and duplicate nothing.
C11_ListsComplete ==
    (runPc = "returned" /\ queue = <<>> /\ timers = 0) =>
        /\ state.completedResults = results
        /\ state.activeRuns = <<>>
        /\ Len(state.errors) =
              Cardinality({k \in 1..Len(events) : events[k].type = "run:error"})

\* The first task waiting in the queue of pLimit.
FirstQueued(j) == pc[j] = "queued" /\ \A k \in 1..(j - 1) : pc[k] # "queued"

\* C12: an item whose model call is aborted by its timeout is recorded, at
\* its deadline, as a RunResult with success = false and a reason carrying the
\* timeout (a judge call aborted by its timeout gives success = false and a
\* reason carrying the timeout as well); once saved it is pushed.  While one
\* item alone is pending and parallelLimit > 1, the next queued item can start.
C12_TimeoutRecordedOthersProceed ==
    /\ \A i \in 1..N :
          threw[i] = <<"timeout">> =>
              /\ FromISOString(cur[i][1].timestamp) = started[i] + TimeoutMs
              /\ cur[i][1].success = FALSE
              /\ cur[i][1].reason = <<"Error: ", "timeout">>
              /\ pc[i] = "done" => \E k \in ResultsOf(i) : results[k] = cur[i][1]
    /\ \A i \in 1..N :
          (cur[i] # <<>> /\ cur[i][1].reason = <<"Judge evaluation failed: ", "timeout">>)
              => cur[i][1].success = FALSE
    /\ \A i \in InFlight, j \in 1..N :
          (config.parallelLimit > 1 /\ ActiveTasks = {i} /\ FirstQueued(j))
              => ENABLED StartRun(j)

\* C12 witness: item i started first and its model call hung until the
\* timeout; item j started while i was pending, completed and was counted
\* before i timed out; both are in the final snapshot.
C12_Witness ==
    \E i, j \in 1..N :
        /\ i # j
        /\ threw[i] = <<"timeout">>
        /\ pc[i] = "done"
        /\ \E si \in EventsOf("run:start", i), sj \in EventsOf("run:start", j),
              cj \in EventsOf("run:complete", j), ei \in EventsOf("run:error", i) :
                 si < sj /\ sj < cj /\ cj < ei
        /\ state.completedRuns = 2

\* C13: the timeout is one absolute deadline per item: the execution of an
\* item (model call and, for a text test, judge call) ends no later than
\* TimeoutMs after the item started, and an abort by timeout of either call
\* is handled as an execution error (run:error and a result whose reason is
\* the error).
C13_AbsoluteDeadline ==
    \A i \in 1..N :
        cur[i] # <<>> =>
            /\ FromISOString(cur[i][1].timestamp) - started[i] <= TimeoutMs
            /\ cur[i][1].reason = <<"Judge evaluation failed: ", "timeout">>
                  => EventsOf("run:error", i) # {}

\* C13 for structured-output tests, which make one remote call: the execution
\* ends within TimeoutMs of the start of the item.
C13_StructuredWithinDeadline ==
    \A i \in 1..N :
        (cur[i] # <<>> /\ TestType(tasks[i].test) = "structured-output") =>
            FromISOString(cur[i][1].timestamp) - started[i] <= TimeoutMs

\* C14: provided every remote call settles and every file write finishes,
\* run() eventually emits benchmark:complete and returns.
C14_RunTerminates == <>(runPc = "returned")

\* C14, what holds: run() eventually returns or rejects, so no item stays
\* queued behind a call that settles.
C14_RunSettles == <>(runPc \in {"returned", "rejected"})

\* C14 when no two work items share a sanitized model name: run() returns.
C14_RunTerminatesDistinctNames ==
    (\A a, b \in 1..Len(config.models) :
        sanitizeForFilename(config.models[a]) = sanitizeForFilename(config.models[b])
            => a = b)
        => <>(runPc = "returned")

\* the .json files of a run directory that parse and fit RunResultSchema, the
\* others, and the results the valid ones hold
ValidFiles(tree) == {f \in tree : IsJsonFile(f) /\ IsValidRunFile(f)}
SkippedFiles(tree) == {f \in tree : IsJsonFile(f) /\ ~IsValidRunFile(f)}
ValidResults(tree) == {f.content[1] : f \in ValidFiles(tree)}

RECURSIVE TotalDuration(_)
TotalDuration(rs) ==
    IF rs = {} THEN 0
    ELSE LET r == CHOOSE x \in rs : TRUE
         IN  r.durationMs + TotalDuration(rs \ {r})

RECURSIVE TotalTokens(_)
TotalTokens(rs) ==
    IF rs = {} THEN 0
    ELSE LET r == CHOOSE x \in rs : TRUE
         IN  r.tokenUsage.total + TotalTokens(rs \ {r})

\* the runs a summary lists, over all models and tests
RunsListed(summary) ==
    UNION {UNION {Range(t.runs) : t \in Range(m.testSummaries)} :
              m \in Range(summary.modelSummaries)}

\* C15: whatever mix of valid and invalid run files the run directory holds,
\* the combination returns a summary; its totalRuns is the number of valid
\* files, it lists exactly their results, and its totals and success rate are
\* those of the valid results alone.
C15_InvalidFilesSkipped ==
    \A n \in DOMAIN combines :
        LET c == combines[n]
            rs == ValidResults(c.tree)
        IN  /\ c.summary.totalRuns = Cardinality(ValidFiles(c.tree))
            /\ RunsListed(c.summary) = rs
            /\ c.summary.totalDurationMs = TotalDuration(rs)
            /\ c.summary.totalTokens = TotalTokens(rs)
            /\ c.summary.overallSuccessRate =
                   Ratio(Cardinality({r \in rs : r.success}) * 100, Cardinality(rs))

\* a combination of a directory with a valid file, an unparsable file and a
\* file that does not fit the schema
C15_Witness ==
    \E n \in DOMAIN combines :
        /\ ValidFiles(combines[n].tree) # {}
        /\ \E f \in SkippedFiles(combines[n].tree) : f.content = <<>>
        /\ \E f \in SkippedFiles(combines[n].tree) : f.content # <<>>
        /\ combines[n].summary.totalRuns = Cardinality(ValidFiles(combines[n].tree))
        /\ combines[n].summary.totalRuns >= 1

\* C16: when the run directory holds one unparsable .json file among valid
\* ones, wherever the unparsable file lies, the summary reflects the valid
\* results and exactly one warning is logged.
C16_OneWarningPerSkippedFile ==
    \A n \in DOMAIN combines :
        LET c == combines[n]
        IN  (/\ Cardinality(SkippedFiles(c.tree)) = 1
             /\ \A f \in SkippedFiles(c.tree) : f.content = <<>>
             /\ ValidFiles(c.tree) # {})
            => /\ c.summary.totalRuns = Cardinality(ValidFiles(c.tree))
               /\ c.warnings = 1

\* No skipped file goes without a warning, and the warnings are as many as the
\* skipped files when every model directory holds a valid run.
C16_WarningsWhenEveryModelHasRuns ==
    \A n \in DOMAIN combines :
        LET c == combines[n]
        IN  /\ c.wrote # <<>> => c.warnings >= Cardinality(SkippedFiles(c.tree))
            /\ (\A f \in c.tree : \E g \in ValidFiles(c.tree) : g.path.dir = f.path.dir)
               => c.warnings = Cardinality(SkippedFiles(c.tree))

\* the name the summary file of an invocation is to have: the override, or
\* the benchmark name and run timestamp of the combined run directory
ExpectedFilename(c) ==
    IF c.output # <<>> THEN c.output \o <<"-summary.json">>
    ELSE IF c.fn = "combineRunDir"
    THEN BenchmarkName \o <<"-">> \o RunTimestamp \o <<"-summary.json">>
    ELSE c.target[1] \o <<"-summary.json">>

\* C17: every invocation of combineRunDir and of combineAllRuns, whatever the
\* directory holds, writes exactly one summary file, named
\* {benchmarkName}-{runTimestamp}-summary.json, or {override}-summary.json
\* when an output name is given.
C17_OneSummaryFilePerInvocation ==
    \A n \in DOMAIN combines :
        /\ Len(combines[n].wrote) = 1
        /\ combines[n].wrote[1] \in resultsDir
        /\ (combines[n].target # <<>> /\ MatchTimestamp(combines[n].target[1]) # <<>>)
           => combines[n].wrote[1] = ExpectedFilename(combines[n])

\* An invocation that finds a model directory in the run directory writes one
\* summary file, and a summary file written for a run directory with a
\* timestamp has the name above.
C17_OneSummaryFileWhenModelDirs ==
    \A n \in DOMAIN combines :
        LET c == combines[n]
        IN  /\ Len(c.wrote) <= 1
            /\ c.tree # {} => Len(c.wrote) = 1
            /\ Range(c.wrote) \subseteq resultsDir
            /\ (c.wrote # <<>> /\ MatchTimestamp(c.target[1]) # <<>>)
               => c.wrote[1] = ExpectedFilename(c)

\* the time a run directory name carries
TimeOf(runDir) ==
    CHOOSE t \in 0..9 : TimestampForFilename(toISOString(t)) = MatchTimestamp(runDir)[1]

\* C18: combineAllRuns combines the run directory with the latest run
\* timestamp among the directories of runsDir, whatever the benchmark names.
C18_LatestRunDirCombined ==
    \A n \in DOMAIN combines :
        LET c == combines[n]
        IN  (/\ c.fn = "combineAllRuns"
             /\ c.runDirs # {}
             /\ \A d \in c.runDirs : MatchTimestamp(d) # <<>>)
            => /\ c.target # <<>>
               /\ c.target[1] \in c.runDirs
               /\ \A d \in c.runDirs : TimeOf(d) <= TimeOf(c.target[1])

\* combineAllRuns combines the directory whose name sorts last.
C18_LastNameCombined ==
    \A n \in DOMAIN combines :
        LET c == combines[n]
        IN  (c.fn = "combineAllRuns" /\ c.runDirs # {})
            => /\ c.target # <<>>
               /\ c.target[1] \in c.runDirs
               /\ \A d \in c.runDirs : ~Before(CodeUnitOrder, c.target[1], d)

\* what the combiner reads back from the file saveRunResult wrote for task i
ReadBack(i) ==
    readRunFiles(<<[path |-> FinalPath(cur[i][1]), content |-> buf[i]]>>).results

\* C19: a RunResult of the runner, of the success path or of the catch block,
\* that saveRunResult has written is accepted by the combiner's reading and
\* validation, and what is read equals the result on every field.
C19_RoundTrip ==
    \A i \in 1..N : buf[i] # <<>> => ReadBack(i) = <<cur[i][1]>>

\* The results the catch block synthesizes, and the results whose token
\* counts are numbers, are read back as they were.
C19_RoundTripOfNumbers ==
    \A i \in 1..N :
        (buf[i] # <<>> /\ (attempt[i] = 2 \/ cur[i][1].tokenUsage.total # NaN))
        => ReadBack(i) = <<cur[i][1]>>

SameExceptGeneratedAt(a, b) == [a EXCEPT !.generatedAt = b.generatedAt] = b

RunsOfTests(m) ==
    [k \in 1..SumOf(m.testSummaries, LAMBDA t : Len(t.runs)) |->
        LET j == CHOOSE j \in DOMAIN m.testSummaries :
                     /\ SumOf(SubSeq(m.testSummaries, 1, j - 1), LAMBDA t : Len(t.runs)) < k
                     /\ k <= SumOf(SubSeq(m.testSummaries, 1, j), LAMBDA t : Len(t.runs))
        IN  m.testSummaries[j].runs[
                k - SumOf(SubSeq(m.testSummaries, 1, j - 1), LAMBDA t : Len(t.runs))]]

TestSummaryConsistent(t) ==
    /\ t.totalRuns = Len(t.runs)
    /\ t.successfulRuns = Len(SelectSeq(t.runs, LAMBDA r : r.success))
    /\ t.totalRuns = t.successfulRuns + t.failedRuns

ModelSummaryConsistent(m) ==
    /\ \A t \in Range(m.testSummaries) : TestSummaryConsistent(t)
    /\ m.totalTests = Len(m.testSummaries)
    /\ m.totalRuns = SumOf(m.testSummaries, LAMBDA t : t.totalRuns)
    /\ m.successfulRuns = SumOf(m.testSummaries, LAMBDA t : t.successfulRuns)
    /\ m.failedRuns = SumOf(m.testSummaries, LAMBDA t : t.failedRuns)
    /\ m.totalDurationMs = SumOf(RunsOfTests(m), LAMBDA r : r.durationMs)
    /\ m.totalTokenUsage.input = SumOf(RunsOfTests(m), LAMBDA r : r.tokenUsage.input)
    /\ m.totalTokenUsage.output = SumOf(RunsOfTests(m), LAMBDA r : r.tokenUsage.output)
    /\ m.totalTokenUsage.total = SumOf(RunsOfTests(m), LAMBDA r : r.tokenUsage.total)

SummaryConsistent(s) ==
    /\ \A m \in Range(s.modelSummaries) : ModelSummaryConsistent(m)
    /\ s.totalModels = Len(s.modelSummaries)
    /\ s.totalRuns = SumOf(s.modelSummaries, LAMBDA m : m.totalRuns)
    /\ s.totalDurationMs = SumOf(s.modelSummaries, LAMBDA m : m.totalDurationMs)
    /\ s.totalTokens = SumOf(s.modelSummaries, LAMBDA m : m.totalTokenUsage.total)
    /\ s.totalTests = Cardinality(UNION {{t.testName : t \in Range(m.testSummaries)} :
                                            m \in Range(s.modelSummaries)})
    /\ s.totalRuns = 0 => s.overallSuccessRate = <<0, 1>>

\* the summaries of no runs at all: every average and rate is 0
ZeroRunsZeroAverages ==
    LET t == computeTestSummary(TestX, <<>>)
        m == computeModelSummary(ModelC, <<>>)
        Zero(avg) == \A k \in DOMAIN avg : avg[k] = <<0, 1>>
    IN  /\ t.totalRuns = 0 /\ t.successRate = <<0, 1>> /\ t.avgDurationMs = <<0, 1>>
        /\ Zero(t.avgTokenUsage)
        /\ m.totalRuns = 0 /\ m.successRate = <<0, 1>> /\ m.avgDurationMs = <<0, 1>>
        /\ Zero(m.avgTokenUsage)

\* C21: in every summary the combiner returns, each test summary has
\* totalRuns = successfulRuns + failedRuns, each model summary's totals are
\* the sums over its test summaries, the overall totals are the sums over the
\* model summaries, totalTests counts the distinct test names, and averages
\* and success rates over no runs are 0.
C21_AggregatesConsistent ==
    /\ \A n \in DOMAIN combines : SummaryConsistent(combines[n].summary)
    /\ ZeroRunsZeroAverages

\* a summary of one model with two tests, one run failed and one successful
\* with tokens used
C21_Witness ==
    \E n \in DOMAIN combines :
        LET s == combines[n].summary
        IN  /\ s.totalModels = 1
            /\ Len(s.modelSummaries[1].testSummaries) = 2
            /\ s.modelSummaries[1].successfulRuns = 1
            /\ s.modelSummaries[1].failedRuns = 1
            /\ s.totalTokens > 0
            /\ SummaryConsistent(s)

CountEvents(type) == Cardinality({k \in DOMAIN events : events[k].type = type})

\* the summary has the numbers of the matrix of the session
CountsMatchMatrix(summary) ==
    /\ CountEvents("run:start") = N
    /\ CountEvents("run:complete") = N
    /\ summary.totalModels = Len(config.models)
    /\ summary.totalTests = Len(config.tests)
    /\ summary.totalRuns = N

\* combineRunDir invoked on the run directory as the session left it
AfterSession(c) ==
    /\ c.fn = "combineRunDir"
    /\ \A f \in c.tree : f.path.file # ForeignPath(f.path.dir).file

\* C22: for a matrix of models, tests and runs, under any mix of successes and
\* failures, the runner emits one run:start and one run:complete per item, and
\* combining the run directory afterwards gives totalModels, totalTests and
\* totalRuns equal to the numbers of models, of tests and of items (2, 3 and
\* 12 for 2 models x 3 tests x 2 runs).
C22_SummaryCountsMatchMatrix ==
    \A n \in DOMAIN combines :
        AfterSession(combines[n]) => CountsMatchMatrix(combines[n].summary)

\* The counts match when the models have distinct directories and every
\* successful call reported its token usage.
C22_CountsMatchForDistinctDirsAndReportedUsage ==
    \A n \in DOMAIN combines :
        (/\ AfterSession(combines[n])
         /\ \A a, b \in DOMAIN config.models :
               a # b => sanitizeForFilename(config.models[a])
                            # sanitizeForFilename(config.models[b])
         /\ \A r \in Range(results) : r.tokenUsage.total # NaN)
        => CountsMatchMatrix(combines[n].summary)

\* the ActiveRun is that of task i
ActiveRunOf(run, i) ==
    /\ run.testName = tasks[i].test
    /\ run.modelName = tasks[i].model
    /\ run.runIndex = tasks[i].runIndex

\* the event this step emits, <<>> when it emits none
Emitted ==
    IF Len(events') = Len(events) + 1 THEN <<events'[Len(events')]>> ELSE <<>>

\* C23: a run:complete or run:error for an item removes from the active set
\* the ActiveRun with the item's test, model and run index, and leaves every
\* other ActiveRun, also one that shares two of the three fields, as it was.
C23_RemovalByFullKey ==
    [][\A e \in Range(Emitted) :
          e.type \in {"run:complete", "run:error"}
          => activeRunsRef' = SelectSeq(activeRunsRef,
                                        LAMBDA run : ~ActiveRunOf(run, e.task))]_vars

\* an item completed and left the active set while an item with the same
\* model and test is still in it
C23_Witness ==
    \E i, j \in 1..N :
        /\ i # j
        /\ tasks[i].model = tasks[j].model
        /\ tasks[i].test = tasks[j].test
        /\ EventsOf("run:complete", i) # {}
        /\ \A k \in DOMAIN activeRunsRef : ~ActiveRunOf(activeRunsRef[k], i)
        /\ \E k \in DOMAIN activeRunsRef : ActiveRunOf(activeRunsRef[k], j)

\* C24: after any sequence of run:complete and run:error events, a repeated
\* delivery of run:complete for the same item included, the completed list
\* holds at most one entry for each work item.
C24_AtMostOneEntryPerItem ==
    \A i \in 1..N : Cardinality(CompletedEntries(i)) <= 1

\* The completed list holds at most as many entries for an item as
\* run:complete events were delivered for it.
C24_OneEntryPerDelivery ==
    \A i \in 1..N : Cardinality(CompletedEntries(i)) = Cardinality(EventsOf("run:complete", i))

\* the event emitted last, whose handlers have returned
LastEvent == events[Len(events)]

\* the exposed snapshot shows the active runs, the results and the errors as
\* the handlers left them, and the completion flag once the batch completed
SnapshotReflectsEvents ==
    /\ state.activeRuns = activeRunsRef
    /\ state.completedResults = completedResultsRef
    /\ state.errors = errorsRef
    /\ LastEvent.type = "benchmark:complete" => state.isComplete

\* C25: when the handler of a critical event (run:start, run:complete,
\* run:error, benchmark:complete) has returned, the exposed snapshot already
\* reflects the event, with no wait for the throttle timer.
C25_CriticalEventsFlushImmediately ==
    (events # <<>> /\ LastEvent.type \in {"run:start", "run:complete", "run:error",
                                          "benchmark:complete"})
    => SnapshotReflectsEvents

\* The same for run:start, run:complete and benchmark:complete, under a
\* synchronously flushing root.
C25_FlushImmediatelyExceptRunError ==
    (events # <<>> /\ LastEvent.type \in {"run:start", "run:complete",
                                          "benchmark:complete"})
    => SnapshotReflectsEvents

\* C26: throttled updates collapse into one flush: at no time is more than
\* one scheduled flush (setTimeout of forceUpdate) pending, however the
\* throttled updates interleave with immediate flushes.
C26_AtMostOneFlushPending == timers <= 1

\* A throttled update that has not been flushed has a timer pending, set when
\* it arrived or earlier.
C26_ScheduledUpdateHasTimer == updateScheduled => timers > 0

\* C27: in every snapshot the store exposes, the counters are what a
\* recomputation from the snapshot's own completedResults gives:
\* completedRuns is its length, successfulRuns the number of successes,
\* failedRuns the rest, totalTokens the sum of tokenUsage.total.
C27_CountersMatchCompletedResults ==
    /\ state.completedRuns = Len(state.completedResults)
    /\ state.successfulRuns = Len(SelectSeq(state.completedResults, LAMBDA r : r.success))
    /\ state.failedRuns = state.completedRuns - state.successfulRuns
    /\ state.totalTokens =
          SeqSum([k \in 1..Len(state.completedResults) |->
                     state.completedResults[k].tokenUsage.total])

\* The order of one item's events in the event log (executeRun emits
\* run:start first, run:error in the catch block, run:complete last).
ItemEventsOrdered(i) ==
    /\ Cardinality(EventsOf("run:start", i)) <= 1
    /\ Cardinality(EventsOf("run:complete", i)) <= 1
    /\ Cardinality(EventsOf("run:error", i)) <= 1
    /\ \A c \in EventsOf("run:complete", i) :
          \E s \in EventsOf("run:start", i) : s < c
    /\ \A e \in EventsOf("run:error", i) :
          /\ \E s \in EventsOf("run:start", i) : s < e
          /\ \A c \in EventsOf("run:complete", i) : e < c
    /\ attempt[i] = 2 <=> EventsOf("run:error", i) # {}

ItemEventsComplete(i) ==
    /\ Cardinality(EventsOf("run:start", i)) = 1
    /\ Cardinality(EventsOf("run:complete", i)) = 1

\* C28: for every work item exactly one run:start and exactly one
\* run:complete are emitted, the run:start before the run:complete; on the
\* error path the item's run:error comes after its run:start and before its
\* run:complete.  Once run() has settled, by returning or by rejecting,
\* nothing more is emitted, so every item has both events by then.
C28_ItemEventOrder ==
    \A i \in 1..N :
        /\ ItemEventsOrdered(i)
        /\ runPc \in {"returned", "rejected"} => ItemEventsComplete(i)

\* C28, the part the code keeps: the events of one item are never out of
\* order or repeated, and every item has its run:start and its run:complete
\* when run() returns.
C28_ItemEventOrderWhenRunReturns ==
    \A i \in 1..N :
        /\ ItemEventsOrdered(i)
        /\ runPc = "returned" => ItemEventsComplete(i)

\* The item's RunResult carries the fallback judgement of judgeTextResponse.
JudgeFailed(i) ==
    /\ response[i] # <<>>
    /\ cur[i] # <<>>
    /\ cur[i][1].reason[1] = "Judge evaluation failed: "

\* C29: a failure of the judge call (error or timeout) is caught inside
\* judgeTextResponse and becomes the judgement {success: false, reason:
\* 'Judge evaluation failed: ...', tokensUsed: 0}: the step emits nothing and
\* hands a failed RunResult to the save of the try block, and the item then
\* completes with that result pushed, one run:complete and no run:error.
C29_JudgeFailureBecomesFailedJudgement ==
    /\ [][\A i \in 1..N, message \in {"failed", "timeout"} :
            JudgeFails(i, message) =>
                /\ cur'[i][1].success = FALSE
                /\ cur'[i][1].reason = <<"Judge evaluation failed: ", message>>
                /\ cur'[i][1].tokenUsage.total =
                      Plus(cur'[i][1].tokenUsage.input, cur'[i][1].tokenUsage.output)
                /\ events' = events
                /\ threw'[i] = <<>>
                /\ attempt'[i] = 1
                /\ pc'[i] = "save_temp"]_vars
    /\ [](\A i \in 1..N :
            JudgeFailed(i) =>
                /\ ~cur[i][1].success
                /\ EventsOf("run:error", i) = {}
                /\ threw[i] = <<>>
                /\ Cardinality(EventsOf("run:complete", i)) <= 1
                /\ pc[i] = "done" =>
                      /\ Cardinality(EventsOf("run:complete", i)) = 1
                      /\ \E k \in ResultsOf(i) : results[k] = cur[i][1])

\* C29 witness: run() has returned and an item whose judge call timed out has
\* completed with the fallback judgement.
C29_Witness ==
    /\ runPc = "returned"
    /\ \E i \in 1..N :
          /\ JudgeFailed(i)
          /\ cur[i][1].reason[2] = "timeout"
          /\ pc[i] = "done"
          /\ EventsOf("run:complete", i) # {}

\* The probe of the judge model did not resolve.
JudgeCheckFailed == judgeCapability \in {"failed", "timeout"}

\* Nothing of a batch has happened: no event was emitted, no work item was
\* created and no file was written.
NothingDispatched == events = <<>> /\ tasks = <<>> /\ disk = {}

\* C30: when the judge-capability check fails, the program aborts before any
\* work item is dispatched (no run:start, no benchmark:start, no run file),
\* and a failed judge-capability check is the only error that keeps a batch
\* from starting: a program that ended without starting its batch ended there.
C30_OnlyJudgeCheckPreventsStart ==
    /\ JudgeCheckFailed => runPc = "exit:judge" /\ NothingDispatched
    /\ runPc \in Exits => JudgeCheckFailed

\* C30 as amended: a failed judge-capability check aborts the program with
\* nothing dispatched; so does every other failure of main() before the
\* runner exists (environment, options, benchmark file, model list); and the
\* errors of a work item (model call, timeout, save) arise only in a batch
\* that has started.
C30_StartupErrorsPreventStart ==
    /\ JudgeCheckFailed => runPc = "exit:judge" /\ NothingDispatched
    /\ runPc \in Exits => NothingDispatched
    /\ (saveFailed # {} \/ runPc = "rejected" \/ \E i \in 1..N : threw[i] # <<>>) =>
          /\ runPc \notin Exits
          /\ EventsOf("benchmark:start", 0) # {}

\* C30 witness: the probe of the judge model was aborted after its 30 s and
\* the program has exited.
C30_Witness ==
    /\ judgeCapability = "timeout"
    /\ runPc = "exit:judge"
    /\ hasTextTests

\* The work item that the loops of run() produce in position k (from 1) for
\* M models, T tests and R runs per test: model (k-1) \div (T*R), test
\* ((k-1) \div R) % T, run index (k-1) % R.
ItemAt(k) ==
    LET T == Len(config.tests)
        R == config.runsPerTest
    IN  [model    |-> config.models[((k - 1) \div (T * R)) + 1],
         test     |-> config.tests[(((k - 1) \div R) % T) + 1],
         runIndex |-> (k - 1) % R]

\* C31: run() generates exactly |models| x |tests| x runsPerTest work
\* items, in model-major, then test, then runIndex 0..runsPerTest-1 order,
\* and no (model, test, runIndex) triple is generated twice.
C31_WorkItemsOfTheMatrix ==
    runPc # "init" =>
        /\ N = Len(config.models) * Len(config.tests) * config.runsPerTest
        /\ \A k \in 1..N : tasks[k] = ItemAt(k)
        /\ \A j, k \in 1..N : j # k => tasks[j] # tasks[k]

\* C31 witness: run() has generated the eight items of two models, two tests
\* and two runs.
C31_Witness ==
    /\ runPc # "init"
    /\ Len(config.models) = 2 /\ Len(config.tests) = 2 /\ config.runsPerTest = 2
    /\ N = 8

\* The lists of the snapshot that observers hold.
HeldLists ==
    [activeRuns       |-> state.activeRuns,
     completedResults |-> state.completedResults,
     errors           |-> state.errors]

\* What the holder of that snapshot reads in its lists after the step:
\* activeRunsRef.current is replaced by a new array on every event, while
\* completedResultsRef.current and errorsRef.current are pushed onto in place.
HeldListsAfterStep ==
    [activeRuns       |-> state.activeRuns,
     completedResults |-> IF "completedResults" \in state.shared
                          THEN completedResultsRef' ELSE state.completedResults,
     errors           |-> IF "errors" \in state.shared
                          THEN errorsRef' ELSE state.errors]

\* C32: a snapshot, once exposed by useBenchmarkStore, is an immutable
\* point-in-time copy: no list of it is an array that a ref of the store
\* holds, and no step of the store or the runner changes what its activeRuns,
\* completedResults and errors lists contain.
C32_SnapshotIsACopy ==
    /\ [](state.shared = {})
    /\ [][HeldListsAfterStep = HeldLists]_vars

\* C32 witness: a snapshot that lists a completed result is exposed while the
\* store has already recorded a later result.
C32_Witness ==
    /\ Len(state.completedResults) >= 1
    /\ Len(completedResultsRef) > Len(state.completedResults)

\* C33: the model-under-test call of a work item is invoked exactly once per
\* item.  The call is issued by the step that takes the item out of pLimit's
\* queue (pc "queued" to "exec"): no other step puts an item at its model
\* call, no item returns to the queue, the catch block never leads back to the
\* call, and no item has more than one run:start.
C33_ModelCalledOncePerItem ==
    /\ [][\A i \in 1..N :
            /\ (pc'[i] = "exec" /\ pc[i] # "exec") => pc[i] = "queued"
            /\ pc[i] # "queued" => pc'[i] # "queued"
            /\ attempt[i] = 2 => pc'[i] # "exec"
            /\ threw[i] # <<>> => pc'[i] # "exec"]_vars
    /\ [](\A i \in 1..N :
            /\ Cardinality(EventsOf("run:start", i)) <= 1
            /\ pc[i] # "queued" <=> EventsOf("run:start", i) # {}
            /\ attempt[i] = 2 => pc[i] \notin {"queued", "exec"})

\* C33 witness: run() has returned, and an item whose model call failed was
\* started once.
C33_Witness ==
    /\ runPc = "returned"
    /\ \E i \in 1..N :
          /\ threw[i] = <<"failed">>
          /\ Cardinality(EventsOf("run:start", i)) = 1

\* the final files of a tree that are completely written, and the files that
\* are temporary or partially written
CompleteFinalFiles(tree) == {f \in tree : ~f.path.tmp /\ f.content # <<>>}
UnfinishedFiles(tree) == {f \in tree : f.path.tmp \/ f.content = <<>>}

\* C34: combineRunDir called while the runner is still persisting results, or
\* after the session ended in the middle of a write, returns a summary that
\* counts exactly the results of the completely written final files: a
\* temporary file or a partially written final file is never counted.
C34_CombineDuringRunCountsCompleteFiles ==
    \A n \in DOMAIN combines :
        LET c == combines[n]
            complete == CompleteFinalFiles(c.tree)
        IN  /\ c.summary.totalRuns = Cardinality(complete)
            /\ RunsListed(c.summary) = {f.content[1] : f \in complete}
            /\ SumOf(c.summary.modelSummaries, LAMBDA m : m.totalRuns)
                   = Cardinality(complete)
            /\ complete # {} => c.wrote # <<>>

\* C34 witness: the run directory was combined while it held a completely
\* written result, a partially written final file and a temporary file with
\* the whole text of a result.
C34_Witness ==
    \E n \in DOMAIN combines :
        /\ combines[n].summary.totalRuns >= 1
        /\ \E f \in UnfinishedFiles(combines[n].tree) : ~f.path.tmp
        /\ \E f \in UnfinishedFiles(combines[n].tree) : f.path.tmp /\ f.content # <<>>

\* The types of the events of one item, in the order of their emission.
RECURSIVE ItemEventTypes(_, _)
ItemEventTypes(log, i) ==
    IF log = <<>> THEN <<>>
    ELSE (IF Head(log).task = i THEN <<Head(log).type>> ELSE <<>>)
         \o ItemEventTypes(Tail(log), i)

\* The events of a finished item in the runner of the persistence module.
EventsOfOutcome(i) ==
    IF attempt[i] = 2 THEN <<"run:start", "run:error", "run:complete">>
    ELSE <<"run:start", "run:complete">>

\* C35: the BenchmarkRunner of src/index.ts emits, for every finished item,
\* the events that the BenchmarkRunner of the persistence module emits for
\* the same outcome: run:start and run:complete, with run:error between them
\* when the item errored.
C35_SameEventsInBothRunners ==
    \A i \in 1..N : pc[i] = "done" => ItemEventTypes(events, i) = EventsOfOutcome(i)

\* C35, the try block: an item that did not error has the same events in both
\* runners.
C35_SameEventsWithoutError ==
    \A i \in 1..N :
        (pc[i] = "done" /\ attempt[i] = 1) =>
            ItemEventTypes(events, i) = <<"run:start", "run:complete">>

\* The items whose ActiveRun the aggregator holds.
ActiveItems ==
    {i \in 1..N : \E k \in DOMAIN activeRunsRef : ActiveRunOf(activeRunsRef[k], i)}

\* every member of the active-run set is the ActiveRun of one item, held once
ActiveRunsAreItems ==
    /\ \A k \in DOMAIN activeRunsRef : \E i \in 1..N : ActiveRunOf(activeRunsRef[k], i)
    /\ \A j, k \in DOMAIN activeRunsRef :
          j # k => ~SameRun(activeRunsRef[j], activeRunsRef[k].testName,
                            activeRunsRef[k].modelName, activeRunsRef[k].runIndex)

\* C36: at every instant during a batch, the members of the aggregator's
\* active-run set are exactly the items that have emitted run:start and have
\* not yet emitted run:complete.
C36_ActiveSetIsStartedNotCompleted ==
    /\ ActiveRunsAreItems
    /\ ActiveItems = {i \in 1..N : /\ EventsOf("run:start", i) # {}
                                   /\ EventsOf("run:complete", i) = {}}

\* C36 as amended: the members of the active-run set are exactly the items
\* that have emitted run:start and neither run:error nor run:complete.
C36_ActiveSetIsStartedNotEnded ==
    /\ ActiveRunsAreItems
    /\ ActiveItems = {i \in 1..N : /\ EventsOf("run:start", i) # {}
                                   /\ EventsOf("run:error", i) = {}
                                   /\ EventsOf("run:complete", i) = {}}

\* C36 witness: an item has emitted run:error and not yet run:complete and is
\* no longer active, while another item is active.
C36_Witness ==
    \E i, j \in 1..N :
        /\ EventsOf("run:error", i) # {}
        /\ EventsOf("run:complete", i) = {}
        /\ i \notin ActiveItems
        /\ j \in ActiveItems

\* the final paths that saveRunResult calls of item i have written
PathsWrittenFor(i) == {w[1] : w \in {x \in writers : x[2] = i}}

\* C37: each work item contributes exactly one entry to the runner's results
\* list and exactly one result file, also when a listener of run:complete
\* throws while handling the event of a successfully executed item.
C37_OneEntryAndOneFilePerItem ==
    \A i \in 1..N :
        /\ Cardinality(ResultsOf(i)) <= 1
        /\ Cardinality(PathsWrittenFor(i)) <= 1
        /\ pc[i] = "done" =>
              /\ Cardinality(ResultsOf(i)) = 1
              /\ Cardinality(PathsWrittenFor(i)) = 1


\* the results that readRunFiles validates in the files of a run directory
ValidatedResults(tree) ==
    {f.content[1] : f \in {g \in tree : IsJsonFile(g) /\ IsValidRunFile(g)}}

\* the model directories of a run directory that hold a validated result
ValidatedModelDirs(tree) ==
    {f.path.dir : f \in {g \in tree : IsJsonFile(g) /\ IsValidRunFile(g)}}

\* C38: in a summary built by combineRunDir, totalModels is the number of
\* distinct modelName values among the validated results, and every model
\* summary holds the results of exactly one model, under the modelName that
\* those results record.
C38_OneSummaryPerRecordedModelName ==
    \A n \in DOMAIN combines :
        (combines[n].fn = "combineRunDir" /\ combines[n].tree # {}) =>
            LET summary == combines[n].summary
                recorded == {r.modelName : r \in ValidatedResults(combines[n].tree)}
            IN  /\ summary.totalModels = Cardinality(recorded)
                /\ \A k \in DOMAIN summary.modelSummaries :
                      \A r \in Range(RunsOfTests(summary.modelSummaries[k])) :
                          r.modelName = summary.modelSummaries[k].modelName

\* What combineRunDir does instead: one model summary per model directory
\* with a validated result, named after the directory, holding the results
\* whose sanitized modelName is that directory name.
C38_OneSummaryPerModelDirectory ==
    \A n \in DOMAIN combines :
        (combines[n].fn = "combineRunDir" /\ combines[n].tree # {}) =>
            LET summary == combines[n].summary
            IN  /\ summary.totalModels = Cardinality(ValidatedModelDirs(combines[n].tree))
                /\ \A k \in DOMAIN summary.modelSummaries :
                      \A r \in Range(RunsOfTests(summary.modelSummaries[k])) :
                          sanitizeForFilename(r.modelName)
                              = summary.modelSummaries[k].modelName


\* the work items in the order of their run:start events
StartOrder ==
    LET starts == SelectSeq(events, LAMBDA e : e.type = "run:start")
    IN  [k \in 1..Len(starts) |-> starts[k].task]

C40_CompletedResultsAreTheRunnersResults ==
    runPc = "returned" =>
        /\ completedResultsRef = results
        /\ Len(results) = N
        /\ \A i \in 1..N : Cardinality(ResultsOf(i)) = 1
        /\ queue = <<>> => state.completedResults = results

\* C40 witness: run() returned after the second item completed before the
\* first and one item failed, and the snapshot of the store shows the list.
C40_Witness ==
    /\ runPc = "returned"
    /\ N >= 2
    /\ Len(results) = N
    /\ results[1].runIndex = tasks[2].runIndex
    /\ results[1].testName = tasks[2].test
    /\ results[1].modelName = tasks[2].model
    /\ tasks[1] # tasks[2]
    /\ \E k \in DOMAIN results : ~results[k].success
    /\ state.isComplete
    /\ state.completedResults = results

============================================================================
